---- MODULE Spec2Model ----
(***************************************************************************)
(* letterboxd-graph: the resilient fetch -> parse pipeline of the CLI.     *)
(*                                                                         *)
(* The model follows src/src/exporter.js (the Puppeteer fetcher: challenge *)
(* classification, fetchPageWithPuppeteer's retry loop, parseDiaryEntries, *)
(* fetchLetterboxdData's pagination, the multi-year drivers and            *)
(* fetchProfileData) and main() of the CLI in src/server.js.               *)
(*                                                                         *)
(* The site is the environment: every navigation draws its outcome (a      *)
(* navigation error, a response status, the document read) from small sets.*)
(* browser.newPage(), page.close() and puppeteer.launch() are taken to     *)
(* succeed; page.goto() is the call that fails.                            *)
(***************************************************************************)
EXTENDS Integers, Sequences, FiniteSets, TLC

(***************************************************************************)
(* Bounds of the model.                                                    *)
(***************************************************************************)
\* pages of one diary year that are followed; the model goes no further
MaxPage == 2
\* rows of a full diary page
FullPageRows == 30
\* tokens of a text handed to the challenge classifier on its own
MaxTextLen == 3

(***************************************************************************)
(* Text and the challenge classifier.                                      *)
(* A text is a sequence of tokens; a regular expression that is a literal  *)
(* phrase matches when its tokens occur contiguously, case-insensitively.  *)
(***************************************************************************)
Tokens ==
  { "cloudflare", " ray id", "cf_chl", "challenge", "-platform", "cdn-cgi/",
    "Just a moment", "checking your browser", "attention required",
    "verify", "security check", "browser check", "film" }

\* the /i flag: matching is done on the lower-cased text
toLowerCase(tok) ==
  IF tok = "Just a moment" THEN "just a moment" ELSE tok

\* pattern.test(html) for a literal pattern given as its tokens
test(pattern, html) ==
  \E i \in 1..Len(html) :
     /\ i + Len(pattern) - 1 <= Len(html)
     /\ \A k \in 1..Len(pattern) : toLowerCase(html[i + k - 1]) = pattern[k]

CLOUDFLARE_STRONG_MARKERS ==
  { <<"cloudflare", " ray id">>,
    <<"cf_chl">>,
    <<"challenge", "-platform">>,
    <<"cdn-cgi/", "challenge", "-platform">> }

CLOUDFLARE_WEAK_MARKERS ==
  { <<"just a moment">>, <<"checking your browser">>, <<"attention required">> }

\* /cloudflare/i
CloudflareText == { <<"cloudflare">> }

\* /(verify|security check|browser check|challenge)/i
VerificationHints ==
  { <<"verify">>, <<"security check">>, <<"browser check">>, <<"challenge">> }

some(patterns, html) == \E p \in patterns : test(p, html)

\* a plausible slip: weak marker with either co-signal (|| for &&)
isCloudflareChallengePage_EitherCoSignal(html) ==
  IF html = <<>> THEN FALSE
  ELSE IF some(CLOUDFLARE_STRONG_MARKERS, html) THEN TRUE
  ELSE /\ some(CLOUDFLARE_WEAK_MARKERS, html)
       /\ (some(CloudflareText, html) \/ some(VerificationHints, html))

\* a plausible slip: a weak marker is taken as conclusive
isCloudflareChallengePage_WeakAlone(html) ==
  IF html = <<>> THEN FALSE
  ELSE IF some(CLOUDFLARE_STRONG_MARKERS, html) THEN TRUE
  ELSE some(CLOUDFLARE_WEAK_MARKERS, html)

isCloudflareChallengePage(html) ==
  IF html = <<>> THEN FALSE
  ELSE IF some(CLOUDFLARE_STRONG_MARKERS, html) THEN TRUE
  ELSE LET hasWeakMarker       == some(CLOUDFLARE_WEAK_MARKERS, html)
           hasCloudflareText   == some(CloudflareText, html)
           hasVerificationHint == some(VerificationHints, html)
       IN  hasWeakMarker /\ hasCloudflareText /\ hasVerificationHint

RETRYABLE_STATUS_CODES == {403, 429, 503}

\* response: [status, cf] where cf says a cf-ray / cf-cache-status /
\* cf-mitigated header or a cloudflare server header is present
isCloudflareResponse(response) ==
  /\ response.status \in RETRYABLE_STATUS_CODES
  /\ (response.cf \/ response.status = 403)

(***************************************************************************)
(* Retry delay.  Math.random() is the third parameter: jitter is the       *)
(* random value in ten-thousandths, so jitterSeconds = jitter / 10000.     *)
(***************************************************************************)
JitterSamples == {0, 5, 9994, 9995}

\* Math.round of x / 10 for x >= 0 (halves round up)
round10(x) == (x + 5) \div 10

RECURSIVE pow2(_)
pow2(n) == IF n <= 0 THEN 1 ELSE 2 * pow2(n - 1)

min(a, b) == IF a <= b THEN a ELSE b

\* exponential backoff with a cap of 30 s, what a backoff helper often is
retryDelayMs_ExponentialCapped(attempt, isCloudflareRetry, jitter) ==
  LET baseSeconds == IF isCloudflareRetry THEN 3 ELSE 2
  IN  min(30000, baseSeconds * pow2(attempt - 1) * 1000 + round10(jitter))

retryDelayMs(attempt, isCloudflareRetry, jitter) ==
  LET baseSeconds == IF isCloudflareRetry THEN 3 ELSE 2
  IN  \* Math.round((baseSeconds * attempt + jitterSeconds) * 1000)
      baseSeconds * attempt * 1000 + round10(jitter)

(***************************************************************************)
(* Dates.  A Date is its day number since 1970-01-01 (day precision).      *)
(***************************************************************************)
NaN == -1000000

\* Date.UTC(year, monthIndex, day) / 86400000, monthIndex 0..11; a day past
\* the month's end rolls over into the following month, as Date.UTC does
DateUTC(year, monthIndex, day) ==
  IF day = NaN THEN NaN
  ELSE LET m   == monthIndex + 1
           y   == IF m <= 2 THEN year - 1 ELSE year
           era == y \div 400
           yoe == y - era * 400
           mp  == IF m > 2 THEN m - 3 ELSE m + 9
           doy == (153 * mp + 2) \div 5 + day - 1
           doe == yoe * 365 + yoe \div 4 - yoe \div 100 + doy
       IN  era * 146097 + doe - 719468

\* Number.parseInt on the strings that occur in day URLs
IntOfString ==
  [s \in {"2021", "2022", "2023", "2024", "2025", "00", "01", "02", "03", "05", "31"} |->
     CASE s = "2021" -> 2021 [] s = "2022" -> 2022 [] s = "2023" -> 2023 [] s = "2024" -> 2024
       [] s = "2025" -> 2025 [] s = "00" -> 0 [] s = "01" -> 1 [] s = "02" -> 2
       [] s = "03" -> 3 [] s = "05" -> 5 [] s = "31" -> 31]

parseInt(s) == IF s \in DOMAIN IntOfString THEN IntOfString[s] ELSE NaN

\* const monthNames = { '01': 0, ..., '12': 11 }
monthNames ==
  [s \in {"01", "02", "03", "04", "05", "06", "07", "08", "09", "10", "11", "12"} |->
     CASE s = "01" -> 0 [] s = "02" -> 1 [] s = "03" -> 2 [] s = "04" -> 3
       [] s = "05" -> 4 [] s = "06" -> 5 [] s = "07" -> 6 [] s = "08" -> 7
       [] s = "09" -> 8 [] s = "10" -> 9 [] s = "11" -> 10 [] s = "12" -> 11]

(***************************************************************************)
(* Parser.  A diary row is                                                 *)
(*   [dayUrl : the href of td.col-daydate a, split at "/" with the empty   *)
(*             parts dropped (<<>> when there is no href),                 *)
(*    title  : the trimmed text of h2.name a,                              *)
(*    rated  : <<>> without a rating span, <<n>> for class "rated-n"]      *)
(* and an html document is [text, table, rows, next] with next one of      *)
(* "none", "enabled", "disabled" (the .paginate-nextprev .next control).   *)
(***************************************************************************)
indexOf(parts, x) ==
  IF \E i \in 1..Len(parts) : parts[i] = x
  THEN CHOOSE i \in 1..Len(parts) :
         parts[i] = x /\ \A j \in 1..(i - 1) : parts[j] # x
  ELSE 0

\* a plausible slip: the halving done in whole stars
halved_Truncated(marker) == (marker \div 2) * 10

\* Number(ratingMatch[1]) / 2, in tenths of a star
halved(marker) == marker * 5

\* the body of entryRows.each: <<entry>> when the row is pushed, <<>> when the
\* row is skipped
parseRow(row, year) ==
  LET urlParts   == row.dayUrl
      yearIndex  == indexOf(urlParts, "for") + 1
      monthIndex == yearIndex + 1
      dayIndex   == monthIndex + 1
  IN  IF urlParts = <<>> THEN <<>>
      ELSE IF indexOf(urlParts, "for") = 0 \/ dayIndex > Len(urlParts) THEN <<>>
      ELSE LET entryYear == parseInt(urlParts[yearIndex])
               month     == urlParts[monthIndex]
               day       == urlParts[dayIndex]
           IN  IF row.title = "" THEN <<>>
               ELSE IF month \in DOMAIN monthNames /\ entryYear = year
                    THEN << [ date   |-> DateUTC(year, monthNames[month], parseInt(day)),
                              title  |-> row.title,
                              rating |-> IF row.rated = <<>> THEN <<>>
                                         ELSE << halved(row.rated[1]) >> ] >>
                    ELSE <<>>

\* const monthNames = { Jan: 0, Feb: 1, Mar: 2, ... } of a parser that reads
\* the month printed in the calendar column
monthOfName(name) ==
  CASE name = "Jan" -> 0 [] name = "Feb" -> 1 [] name = "Mar" -> 2 [] OTHER -> NaN

\* a row resolved from the month and year carried over from the rows before
\* it and its own day number
parseRowCarried(row, year, context) ==
  IF context = <<>> \/ row.title = "" THEN <<>>
  ELSE IF monthOfName(context[1]) # NaN /\ parseInt(context[2]) = year
       THEN << [ date   |-> DateUTC(year, monthOfName(context[1]), parseInt(row.day)),
                 title  |-> row.title,
                 rating |-> IF row.rated = <<>> THEN <<>>
                            ELSE << row.rated[1] * 5 >> ] >>
       ELSE <<>>

\* the rows parsed with a context threaded through them; a row that prints
\* month and year sets the context
RECURSIVE parseRowsCarrying(_, _, _, _)
parseRowsCarrying(rows, year, context, permalinkFirst) ==
  IF rows = <<>> THEN <<>>
  ELSE LET row == Head(rows)
           ctx == IF row.calendar # <<>> THEN row.calendar ELSE context
       IN  (IF permalinkFirst /\ row.dayUrl # <<>>
            THEN parseRow(row, year)
            ELSE parseRowCarried(row, year, ctx))
           \o parseRowsCarrying(Tail(rows), year, ctx, permalinkFirst)

\* a plausible slip: the date is taken from the carried month and year even
\* when the row has a permalink
parseRows_CarriedFirst(rows, year) == parseRowsCarrying(rows, year, <<>>, FALSE)

\* what a fallback would do: a row without a permalink is resolved from the
\* carried month and year
parseRows_CarriedFallback(rows, year) == parseRowsCarrying(rows, year, <<>>, TRUE)

RECURSIVE parseRows(_, _)
parseRows(rows, year) ==
  IF rows = <<>> THEN <<>>
  ELSE parseRow(Head(rows), year) \o parseRows(Tail(rows), year)

parseDiaryEntries(html, year) ==
  IF ~html.table
  THEN [entries |-> <<>>, hasMore |-> FALSE]
  ELSE [entries |-> parseRows(html.rows, year),
        hasMore |-> html.next = "enabled"]

(***************************************************************************)
(* Profile page.  The profile part of a document is                        *)
(*   [displayname : text of .person-display-name .displayname ("" if none),*)
(*    avatar      : src of .profile-avatar img ("" if none),               *)
(*    followers, following, films : <<>> without a matching link or        *)
(*                  number, <<n>> for the number matched,                  *)
(*    badges      : the badge classes present]                             *)
(* JavaScript's null is the string "null"; a property that is undefined is *)
(* a field the record does not have.                                       *)
(***************************************************************************)
count(match) == IF match = <<>> THEN 0 ELSE match[1]

\* the try block of fetchProfileData, after the page was fetched
parseProfile(html, username) ==
  LET p == html.profile
  IN  [ profileImage |-> IF p.avatar = "" THEN "null" ELSE p.avatar,
        displayName  |-> IF p.displayname = "" THEN username ELSE p.displayname,
        followers    |-> count(p.followers),
        following    |-> count(p.following),
        totalEntries |-> count(p.films),
        memberStatus |-> IF "-patron" \in p.badges THEN "patron"
                         ELSE IF "-pro" \in p.badges THEN "pro" ELSE "null" ]

\* the catch block of fetchProfileData
profileFallback(username) ==
  [ profileImage |-> "null",
    displayName  |-> username,
    followers    |-> 0,
    following    |-> 0 ]

(***************************************************************************)
(* Dates as the graph code reads them.  The process's time zone is an      *)
(* input: tz is the offset of local time from UTC in hours.                *)
(***************************************************************************)
TimeZones == {-5, 0, 2}

\* the civil date <<year, month, day>> (month 1..12) of a day number
civil(d) ==
  LET z   == d + 719468
      era == z \div 146097
      doe == z - era * 146097
      yoe == (doe - doe \div 1460 + doe \div 36524 - doe \div 146096) \div 365
      doy == doe - (365 * yoe + yoe \div 4 - yoe \div 100)
      mp  == (5 * doy + 2) \div 153
      dd  == doy - (153 * mp + 2) \div 5 + 1
      m   == IF mp < 10 THEN mp + 3 ELSE mp - 9
  IN  << IF m <= 2 THEN yoe + era * 400 + 1 ELSE yoe + era * 400, m, dd >>

\* date.toISOString().split('T')[0]: "YYYY-MM-DD", kept as <<YYYY, MM, DD>>;
\* strings of this shape sort as these tuples do, field by field
toISODate(d) == civil(d)

\* new Date("YYYY-MM-DD"): the UTC midnight of that date
DateOfISO(iso) == DateUTC(iso[1], iso[2] - 1, iso[3])

\* iso1 < iso2 as strings
isoLess(a, b) ==
  \/ a[1] < b[1]
  \/ a[1] = b[1] /\ a[2] < b[2]
  \/ a[1] = b[1] /\ a[2] = b[2] /\ a[3] < b[3]

\* date.getUTCDay(): 0 is Sunday; 1970-01-01 was a Thursday
getUTCDay(d) == (d + 4) % 7

\* date.getFullYear() of the UTC midnight of day d: the year of the local
\* date, which is the day before in a zone behind UTC
getFullYear(d, tz) == civil((d * 24 + tz) \div 24)[1]

(***************************************************************************)
(* Statistics (stats.js).                                                  *)
(***************************************************************************)
\* [...new Set(entries.map(e => e.date.toISOString().split('T')[0]))]
isoDates(entries) == { toISODate(entries[i].date) : i \in 1..Len(entries) }

\* [...set].sort() of ISO date strings
RECURSIVE sortISO(_)
sortISO(S) ==
  IF S = {} THEN <<>>
  ELSE LET first == CHOOSE a \in S : \A b \in S \ {a} : isoLess(a, b)
       IN  <<first>> \o sortISO(S \ {first})

\* a plausible slip: a later run of the same length replaces the kept one
extendsMax_OrEqual(currentStreak, maxStreak) == currentStreak >= maxStreak

\* if (currentStreak > maxStreak)
extendsMax(currentStreak, maxStreak) == currentStreak > maxStreak

\* the for loop of calculateStreak from index i (1-based) on
RECURSIVE streakLoop(_, _, _)
streakLoop(uniqueDates, i, acc) ==
  IF i > Len(uniqueDates) THEN acc
  ELSE LET prevDate == DateOfISO(uniqueDates[i - 1])
           currDate == DateOfISO(uniqueDates[i])
           diffDays == currDate - prevDate
       IN  IF diffDays = 1
           THEN LET cur == acc.currentStreak + 1
                IN  streakLoop(uniqueDates, i + 1,
                      IF extendsMax(cur, acc.maxStreak)
                      THEN [acc EXCEPT !.currentStreak = cur,
                                       !.maxStreak = cur,
                                       !.maxStart = acc.currentStart,
                                       !.maxEnd = uniqueDates[i]]
                      ELSE [acc EXCEPT !.currentStreak = cur])
           ELSE streakLoop(uniqueDates, i + 1,
                  [acc EXCEPT !.currentStreak = 1,
                              !.currentStart = uniqueDates[i]])

\* JavaScript's null for a date string
NullDate == <<>>

calculateStreak(entries) ==
  IF Len(entries) = 0
  THEN [length |-> 0, startDate |-> NullDate, endDate |-> NullDate]
  ELSE LET uniqueDates == sortISO(isoDates(entries))
           last == streakLoop(uniqueDates, 2,
                     [maxStreak |-> 1, currentStreak |-> 1,
                      maxStart |-> uniqueDates[1], maxEnd |-> uniqueDates[1],
                      currentStart |-> uniqueDates[1]])
       IN  [length |-> last.maxStreak, startDate |-> last.maxStart,
            endDate |-> last.maxEnd]

\* uniqueDates.size
calculateDaysActive(entries) ==
  IF Len(entries) = 0 THEN 0 ELSE Cardinality(isoDates(entries))

\* groupEntriesByDate(entries).get(dateKey): the films of that date in the
\* order of entries
filmsOn(entries, dateKey) ==
  LET ofDate == SelectSeq(entries, LAMBDA e : toISODate(e.date) = dateKey)
  IN  [i \in 1..Len(ofDate) |->
         [title |-> ofDate[i].title, rating |-> ofDate[i].rating]]

(***************************************************************************)
(* The graph (generateSvg, generateMultiYearSvg).  Of the SVG text the     *)
(* model keeps what it is computed from: the statistics, the grid and, for *)
(* each cell that is drawn, its date, its count and its colour level (the  *)
(* index into the theme's colors).                                         *)
(***************************************************************************)
\* entries.filter(entry => entry.date.getFullYear() === year)
filterYear(entries, year, tz) ==
  SelectSeq(entries, LAMBDA e : getFullYear(e.date, tz) = year)

\* .sort((a, b) => a.date.getTime() - b.date.getTime()); the sort is stable
RECURSIVE sortByDate(_)
sortByDate(entries) ==
  IF entries = <<>> THEN <<>>
  ELSE LET sorted == sortByDate(SubSeq(entries, 1, Len(entries) - 1))
           e      == entries[Len(entries)]
           k      == Cardinality({ i \in 1..Len(sorted) : sorted[i].date <= e.date })
       IN  SubSeq(sorted, 1, k) \o <<e>> \o SubSeq(sorted, k + 1, Len(sorted))

\* Math.ceil(a / b) for a >= 0 and b > 0
ceilDiv(a, b) == (a + b - 1) \div b

\* films.reduce((sum, f) => sum + (f.rating || 0), 0), in tenths of a star
RECURSIVE totalRating(_)
totalRating(films) ==
  IF films = <<>> THEN 0
  ELSE (IF Head(films).rating = <<>> THEN 0 ELSE Head(films).rating[1])
       + totalRating(Tail(films))

\* a plausible slip: the bucket bounds are exclusive below (<= for <)
ratingLevel_UpperInclusive(total, n) ==
  IF total <= 25 * n THEN 1
  ELSE IF total <= 35 * n THEN 2
  ELSE IF total <= 45 * n THEN 3
  ELSE 4

\* avgRating = totalRating / count against 2.5, 3.5 and 4.5
ratingLevel(total, n) ==
  IF total < 25 * n THEN 1
  ELSE IF total < 35 * n THEN 2
  ELSE IF total < 45 * n THEN 3
  ELSE 4

\* Math.min(Math.ceil((count / maxCount) * 4), 4)
countLevel(n, maxCount) == min(ceilDiv(n * 4, maxCount), 4)

\* getColor(count, films) with the mode and maxCount it closes over; the
\* result is the index of the colour
getColor(n, films, mode, maxCount) ==
  IF n = 0 THEN 0
  ELSE IF mode = "rating" /\ Len(films) > 0
       THEN ratingLevel(totalRating(films), n)
       ELSE IF maxCount = 0 THEN 0
            ELSE countLevel(n, maxCount)

\* a plausible slip: Monday start shifts the wrong way
weekdayIndex_MondayShiftedBack(utcDay, weekStart) ==
  IF weekStart = "monday" THEN (utcDay + 1) % 7 ELSE utcDay

\* weekStart === 'monday' ? (getUTCDay() + 6) % 7 : getUTCDay()
weekdayIndex(utcDay, weekStart) ==
  IF weekStart = "monday" THEN (utcDay + 6) % 7 ELSE utcDay

\* the forEach that fills the grid, from entry i on
RECURSIVE fillGrid(_, _, _, _, _, _)
fillGrid(entries, i, startDate, weekStart, totalWeeks, acc) ==
  IF i > Len(entries) THEN acc
  ELSE LET daysSinceStart == entries[i].date - startDate
           weekIndex      == daysSinceStart \div 7
           dayIndex       == weekdayIndex(getUTCDay(entries[i].date), weekStart)
       IN  IF weekIndex >= 0 /\ weekIndex < totalWeeks
           THEN LET c == acc.grid[dayIndex][weekIndex] + 1
                IN  fillGrid(entries, i + 1, startDate, weekStart, totalWeeks,
                      [grid     |-> [acc.grid EXCEPT ![dayIndex][weekIndex] = c],
                       maxCount |-> IF c > acc.maxCount THEN c ELSE acc.maxCount])
           ELSE fillGrid(entries, i + 1, startDate, weekStart, totalWeeks, acc)

\* the statistics row: `${totalFilms} Movies`, the streak, the days active
yearStats(yearEntries) ==
  [ totalFilms |-> Len(yearEntries),
    streak     |-> calculateStreak(yearEntries),
    daysActive |-> calculateDaysActive(yearEntries) ]

\* weeklyDistribution: films per getUTCDay, Sunday = 0
weeklyDistribution(yearEntries) ==
  [dayOfWeek \in 0..6 |->
     Cardinality({ i \in 1..Len(yearEntries) : getUTCDay(yearEntries[i].date) = dayOfWeek })]

\* the labels under the bars
distributionLabels(weekStart) ==
  IF weekStart = "monday"
  THEN [i \in 0..6 |-> <<"M", "T", "W", "T", "F", "S", "S">>[i + 1]]
  ELSE [i \in 0..6 |-> <<"S", "M", "T", "W", "T", "F", "S">>[i + 1]]

\* a plausible slip: the bars are not shifted with the labels
distributionIndex_Unshifted(i, weekStart) == i

\* const dayIndex = weekStart === 'monday' ? (i + 1) % 7 : i
distributionIndex(i, weekStart) ==
  IF weekStart = "monday" THEN (i + 1) % 7 ELSE i

\* the bars of the weekly distribution, left to right: label and count
distributionBars(yearEntries, weekStart) ==
  [i \in 0..6 |->
     [label |-> distributionLabels(weekStart)[i],
      count |-> weeklyDistribution(yearEntries)[distributionIndex(i, weekStart)]]]

CELL_SIZE == 14
CELL_GAP  == 3

\* a plausible slip: the padding cells are drawn as well
isOutsideYear_Never(cellDate, year) == FALSE

\* cellDate < new Date(Date.UTC(year, 0, 1)) || cellDate > new Date(Date.UTC(year, 11, 31))
isOutsideYear(cellDate, year) ==
  cellDate < DateUTC(year, 0, 1) \/ cellDate > DateUTC(year, 11, 31)

\* what both generators do with the entries of one year
renderYear(yearEntries, year, weekStart, mode) ==
  LET jan1       == DateUTC(year, 0, 1)
      endDate    == DateUTC(year, 11, 31)
      startDay   == getUTCDay(jan1)
      dayShift   == weekdayIndex(startDay, weekStart)
      startDate  == jan1 - dayShift
      totalDays  == endDate - startDate + 1
      totalWeeks == ceilDiv(totalDays, 7)
      filled     == fillGrid(yearEntries, 1, startDate, weekStart, totalWeeks,
                      [grid |-> [day \in 0..6 |-> [week \in 0..(totalWeeks - 1) |-> 0]],
                       maxCount |-> 0])
      \* groupEntriesByDate(yearEntries)
      filmsPerDay == [dateKey \in isoDates(yearEntries) |-> filmsOn(yearEntries, dateKey)]
      cell(day, week) ==
        LET cellDate    == startDate + week * 7 + day
            tooltipDate == toISODate(cellDate)
            \* filmsPerDay.get(tooltipDate) || []
            filmsForDay == IF tooltipDate \in DOMAIN filmsPerDay
                           THEN filmsPerDay[tooltipDate] ELSE <<>>
        IN  [day   |-> day, week |-> week, date |-> tooltipDate,
             x     |-> week * (CELL_SIZE + CELL_GAP),
             y     |-> day * (CELL_SIZE + CELL_GAP),
             count |-> Len(filmsForDay),
             level |-> getColor(Len(filmsForDay), filmsForDay, mode, filled.maxCount)]
  IN  [ year       |-> year,
        stats      |-> yearStats(yearEntries),
        weeklyDistribution |-> weeklyDistribution(yearEntries),
        bars       |-> distributionBars(yearEntries, weekStart),
        startDate  |-> startDate,
        totalWeeks |-> totalWeeks,
        grid       |-> filled.grid,
        maxCount   |-> filled.maxCount,
        \* if (isOutsideYear) continue: those cells are not drawn
        cells      |-> { cell(p[1], p[2]) :
                           p \in { q \in (0..6) \X (0..(totalWeeks - 1)) :
                                     ~isOutsideYear(startDate + q[2] * 7 + q[1], year) } } ]

\* const sortedEntries = [...entries].filter(...).sort(...)
sortedEntries(entries, year, tz) == sortByDate(filterYear(entries, year, tz))

\* options: [year, weekStart, mode]
generateSvg(entries, options, tz) ==
  renderYear(sortedEntries(entries, options.year, tz),
             options.year, options.weekStart, options.mode)

\* [...years].sort((a, b) => b - a)
RECURSIVE sortDescending(_)
sortDescending(ys) ==
  IF ys = <<>> THEN <<>>
  ELSE LET sorted == sortDescending(SubSeq(ys, 1, Len(ys) - 1))
           y      == ys[Len(ys)]
           k      == Cardinality({ i \in 1..Len(sorted) : sorted[i] >= y })
       IN  SubSeq(sorted, 1, k) \o <<y>> \o SubSeq(sorted, k + 1, Len(sorted))

\* options: [years, weekStart, mode]; one block per year, newest first
generateMultiYearSvg(entries, options, tz) ==
  LET sortedYears == sortDescending(options.years)
  IN  [ yearIndex \in 1..Len(sortedYears) |->
          renderYear(filterYear(entries, sortedYears[yearIndex], tz),
                     sortedYears[yearIndex], options.weekStart, options.mode) ]

(***************************************************************************)
(* The JSON export (buildJsonExport in stats.js).  Of the export the model *)
(* keeps meta.alignedStart, meta.maxCount and, of every calendar day, its  *)
(* date, week, weekday, count, ratingAvg, level and inRange.               *)
(***************************************************************************)
\* Math.round((sum / rated.length) * 10) / 10 over the rated films, in
\* tenths of a star; <<>> is null
ratingAvg(dayEntries) ==
  LET rated == SelectSeq(dayEntries, LAMBDA item : item.rating # <<>>)
  IN  IF Len(rated) > 0
      THEN << (2 * totalRating(rated) + Len(rated)) \div (2 * Len(rated)) >>
      ELSE <<>>

\* the level loop over the calendar
dayLevel(n, maxCount) ==
  IF n <= 0 \/ maxCount <= 0 THEN 0
  ELSE IF maxCount = 1 THEN 1
  ELSE LET level == min(4, ceilDiv(n * 4, maxCount))
       IN  IF level < 1 THEN 1 ELSE level

\* options: [year, weekStart], the years being [year]
buildJsonExport(entries, options) ==
  LET sorted       == sortByDate(entries)
      groupedByDate == [dateKey \in isoDates(sorted) |-> filmsOn(sorted, dateKey)]
      rangeStart   == DateUTC(options.year, 0, 1)
      rangeEnd     == DateUTC(options.year, 11, 31)
      alignedStart == rangeStart - weekdayIndex(getUTCDay(rangeStart), options.weekStart)
      totalDays    == rangeEnd - alignedStart + 1
      dayEntries(dayOffset) ==
        LET date == toISODate(alignedStart + dayOffset)
        IN  IF date \in DOMAIN groupedByDate THEN groupedByDate[date] ELSE <<>>
      counts       == { Len(dayEntries(dayOffset)) : dayOffset \in 0..(totalDays - 1) }
      maxCount     == CHOOSE m \in counts \cup {0} : \A c \in counts : c <= m
  IN  [ alignedStart |-> toISODate(alignedStart),
        maxCount     |-> maxCount,
        calendar     |->
          [dayOffset \in 0..(totalDays - 1) |->
             LET currentDate == alignedStart + dayOffset
             IN  [date     |-> toISODate(currentDate),
                  week     |-> dayOffset \div 7,
                  weekday  |-> weekdayIndex(getUTCDay(currentDate), options.weekStart),
                  count    |-> Len(dayEntries(dayOffset)),
                  ratingAvg |-> ratingAvg(dayEntries(dayOffset)),
                  level    |-> dayLevel(Len(dayEntries(dayOffset)), maxCount),
                  inRange  |-> ~(currentDate < rangeStart \/ currentDate > rangeEnd)]] ]

(***************************************************************************)
(* The site: what a navigation can be answered with.                       *)
(***************************************************************************)
Username == "alice"

YearString == [y \in {2021, 2022, 2023, 2024, 2025} |->
                 CASE y = 2021 -> "2021" [] y = 2022 -> "2022" [] y = 2023 -> "2023"
                   [] y = 2024 -> "2024" [] y = 2025 -> "2025"]

NoProfile ==
  [displayname |-> "", avatar |-> "", followers |-> <<>>, following |-> <<>>,
   films |-> <<>>, badges |-> {}]

PlainText     == <<"film">>
WeakText      == <<"film", "Just a moment", "film">>
WeakCfText    == <<"Just a moment", "cloudflare">>
ChallengeText == <<"Just a moment", "cloudflare", "verify">>
StrongText    == <<"cdn-cgi/", "challenge", "-platform">>

Row(y, m, d, title, rated) ==
  [dayUrl |-> <<Username, "films", "diary", "for", y, m, d>>,
   title |-> title, rated |-> rated]

GoodRow(y)      == Row(YearString[y], "03", "05", "Alien", <<8>>)
UnratedRow(y)   == Row(YearString[y], "01", "31", "Heat", <<>>)
OtherYearRow(y) == Row(YearString[y - 1], "02", "01", "Ran", <<10>>)
NoTitleRow(y)   == Row(YearString[y], "03", "05", "", <<6>>)
NoUrlRow        == [dayUrl |-> <<>>, title |-> "Alien", rated |-> <<8>>]
BadUrlRow(y)    == [dayUrl |-> <<Username, "films", "diary", YearString[y], "03", "05">>,
                    title |-> "Alien", rated |-> <<8>>]

Doc(text, table, rows, next) ==
  [text |-> text, table |-> table, rows |-> rows, next |-> next,
   profile |-> NoProfile]

FullPage(y) == Doc(PlainText, TRUE, [i \in 1..FullPageRows |-> GoodRow(y)], "enabled")

\* the documents a diary URL of year y may be answered with
DiaryDocs(y) ==
  { FullPage(y),
    Doc(PlainText, TRUE, <<GoodRow(y), UnratedRow(y)>>, "enabled"),
    Doc(PlainText, TRUE, <<UnratedRow(y), NoTitleRow(y), NoUrlRow, BadUrlRow(y)>>, "disabled"),
    Doc(PlainText, TRUE, <<OtherYearRow(y)>>, "enabled"),
    Doc(PlainText, TRUE, <<>>, "enabled"),
    Doc(PlainText, FALSE, <<>>, "enabled"),
    Doc(PlainText, FALSE, <<>>, "none"),
    Doc(WeakText, TRUE, <<GoodRow(y)>>, "none"),
    Doc(ChallengeText, TRUE, <<GoodRow(y)>>, "none"),
    Doc(ChallengeText, FALSE, <<>>, "none"),
    Doc(StrongText, TRUE, <<GoodRow(y)>>, "none") }

ProfileDoc(text, profile) ==
  [text |-> text, table |-> FALSE, rows |-> <<>>, next |-> "none",
   profile |-> profile]

ProfileDocs ==
  { ProfileDoc(PlainText,
      [displayname |-> "Alice A", avatar |-> "avatar.jpg", followers |-> <<12>>,
       following |-> <<3>>, films |-> <<1204>>, badges |-> {"-pro"}]),
    ProfileDoc(WeakCfText, NoProfile),
    ProfileDoc(StrongText, NoProfile) }

Target(route, y, p) == [route |-> route, year |-> y, page |-> p]

NoTarget == Target("none", 0, 0)

\* the documents page.content() may return at a URL
DocsAt(target) ==
  IF target.route = "profile" THEN ProfileDocs ELSE DiaryDocs(target.year)

\* responses with a status of 400 or more: [status, cf]
ErrorResponses ==
  { [status |-> 403, cf |-> FALSE], [status |-> 429, cf |-> TRUE],
    [status |-> 429, cf |-> FALSE], [status |-> 500, cf |-> FALSE] }

NoDoc == Doc(<<>>, FALSE, <<>>, "none")

\* the status of a response that is not an error.  page.goto() resolves to
\* null only for about:blank and for a change of hash within the document,
\* which the URLs of the fetcher never are
OkStatuses == {200}

(***************************************************************************)
(* State.                                                                  *)
(***************************************************************************)
VARIABLES
  \* main() of the CLI
  pc,              \* where main() is
  years,           \* the -y argument
  profileData,     \* what fetchProfileData returned
  filmEntries,     \* allEntries of tryFetchMultipleYears / fetchSpecificYears
  svg,             \* <<>> until the graph is generated, then <<the graph>>
  fetchNo,         \* which call of fetchLetterboxdData the driver is in
  \* fetchLetterboxdData
  fdPc,            \* "idle", "loop", "await", "returned", "threw"
  year, page, hasMorePages, allEntries,
  served,          \* the documents fetched for pages 1, 2, ... of this call
  pageRequests,    \* calls of fetchPageWithPuppeteer made by this call
  \* the shared browser
  browserInstance, \* 0 for null, else the number of the launched browser
  launches,        \* puppeteer.launch() calls so far
  openPages,       \* pages opened and not yet closed
  \* fetchPageWithPuppeteer
  fpPc,            \* "idle", "getBrowser", "newPage", "goto", "sleep",
                   \* "finally", "returned", "thrown"
  url, attempt, content, error, waitMs,
  fpExit,          \* how the try statement is left: "return", "throw", "retry"
  navigations,     \* page.goto() calls made by this call
  responseStatus,  \* response.status() inside the try block of an attempt, 0 outside
  jitter,          \* the Math.random() value behind waitMs
  challengeStreak, \* consecutive attempts that ended in a challenge error
  \* the classifier applied to a text on its own
  cHtml, cVerdict,
  \* a pure function applied on its own: its arguments, and <<>> until it
  \* has run, then <<its result>>
  input, output

vars ==
  << pc, years, profileData, filmEntries, fetchNo, fdPc, year, page,
     hasMorePages, allEntries, served, pageRequests, browserInstance,
     launches, openPages, fpPc, url, attempt, content, error, waitMs, fpExit,
     navigations, responseStatus, jitter, challengeStreak, cHtml, cVerdict, svg, input,
     output >>

mainVars    == << pc, years, profileData, filmEntries, fetchNo, svg >>
fdVars      == << fdPc, year, page, hasMorePages, allEntries, served, pageRequests >>
browserVars == << browserInstance, launches, openPages >>
fpVars      == << fpPc, url, attempt, content, error, waitMs, fpExit,
                  navigations, responseStatus, jitter, challengeStreak >>
classVars   == << cHtml, cVerdict >>
pureVars    == << input, output >>

\* async function fetchPageWithPuppeteer(url, retries = 5)
retries == 5

NoError == [kind |-> "none", attempt |-> 0]

\* the years main() is started with: one year, or several
YearsInputs == { <<2024>>, <<2024, 2023>> }

InitProgram ==
  /\ pc = "fetchProfile"
  /\ years \in YearsInputs
  /\ profileData = profileFallback("")
  /\ filmEntries = <<>>
  /\ svg = <<>>
  /\ fetchNo = 0
  /\ fdPc = "idle"
  /\ year = 0
  /\ page = 0
  /\ hasMorePages = FALSE
  /\ allEntries = <<>>
  /\ served = <<>>
  /\ pageRequests = 0
  /\ browserInstance = 0
  /\ launches = 0
  /\ openPages = 0
  /\ fpPc = "idle"
  /\ url = NoTarget
  /\ attempt = 0
  /\ content = NoDoc
  /\ error = NoError
  /\ waitMs = 0
  /\ fpExit = "none"
  /\ navigations = 0
  /\ responseStatus = 0
  /\ jitter = 0
  /\ challengeStreak = 0

\* no pure function is being applied on its own
NoInput == [fn |-> "none"]

Init ==
  /\ InitProgram
  /\ cHtml = <<>>
  /\ cVerdict = "unset"
  /\ input = NoInput
  /\ output = <<>>

(***************************************************************************)
(* fetchPageWithPuppeteer(url): the caller sets url and fpPc = "getBrowser"*)
(* and waits for fpPc = "returned" (content) or "thrown" (error).          *)
(***************************************************************************)
CallFetchPage(target) ==
  /\ url' = target
  /\ fpPc' = "getBrowser"
  /\ attempt' = 0
  /\ navigations' = 0
  /\ responseStatus' = 0
  /\ content' = NoDoc
  /\ error' = NoError
  /\ fpExit' = "none"
  /\ UNCHANGED << waitMs, jitter, challengeStreak >>

\* the caller has taken the content or caught the error: the call's locals
\* are gone; an error that is rethrown stays the error in flight
LeaveFetchPage(rethrown) ==
  /\ fpPc' = "idle"
  /\ url' = NoTarget
  /\ attempt' = 0
  /\ navigations' = 0
  /\ responseStatus' = 0
  /\ content' = NoDoc
  /\ fpExit' = "none"
  /\ error' = IF rethrown THEN error ELSE NoError
  /\ UNCHANGED << waitMs, jitter, challengeStreak >>

\* const browser = await getBrowser(); for (let attempt = 1; ...
FP_GetBrowser ==
  /\ fpPc = "getBrowser"
  /\ IF browserInstance = 0
     THEN /\ launches' = launches + 1
          /\ browserInstance' = launches + 1
     ELSE UNCHANGED << browserInstance, launches >>
  /\ attempt' = 1
  /\ fpPc' = "newPage"
  /\ UNCHANGED << openPages, url, content, error, waitMs, fpExit, navigations,
                  responseStatus,
                  jitter, challengeStreak >>
  /\ UNCHANGED << mainVars, fdVars, classVars, pureVars >>

\* const page = await browser.newPage()
FP_NewPage ==
  /\ fpPc = "newPage"
  /\ openPages' = openPages + 1
  /\ fpPc' = "goto"
  /\ UNCHANGED << browserInstance, launches, url, attempt, content, error,
                  waitMs, fpExit, navigations, responseStatus, jitter,
                  challengeStreak >>
  /\ UNCHANGED << mainVars, fdVars, classVars, pureVars >>

\* a plausible slip: the last attempt is taken to be the one before
isLastAttempt_OffByOne(a) == a = retries - 1

\* if (attempt === retries)
isLastAttempt(a) == a = retries

\* the catch block: rethrow on the last attempt, else compute the delay
Catch(kind) ==
  /\ error' = [kind |-> kind, attempt |-> attempt]
  /\ challengeStreak' = IF kind = "challenge" THEN challengeStreak + 1 ELSE 0
  /\ IF isLastAttempt(attempt)
     THEN /\ fpExit' = "throw"
          /\ fpPc' = "finally"
          /\ UNCHANGED << waitMs, jitter >>
     ELSE /\ \E j \in JitterSamples :
               /\ jitter' = j
               /\ waitMs' = retryDelayMs(attempt, kind = "challenge", j)
          /\ fpExit' = "retry"
          /\ fpPc' = "sleep"

\* page.goto() rejects: a timeout or a connection error
FP_GotoThrows ==
  /\ fpPc = "goto"
  /\ navigations' = navigations + 1
  /\ responseStatus' = 0
  /\ Catch("network")
  /\ UNCHANGED << url, attempt, content >>
  /\ UNCHANGED << mainVars, fdVars, browserVars, classVars, pureVars >>

\* response.status() >= 400
FP_StatusError ==
  /\ fpPc = "goto"
  /\ navigations' = navigations + 1
  /\ \E response \in ErrorResponses :
       /\ responseStatus' = response.status
       /\ Catch(IF isCloudflareResponse(response) THEN "challenge" ELSE "http")
  /\ UNCHANGED << url, attempt, content >>
  /\ UNCHANGED << mainVars, fdVars, browserVars, classVars, pureVars >>

\* a plausible slip: what is read after the 8 s is returned unexamined
FP_Content_NoRecheck ==
  /\ fpPc = "goto"
  /\ navigations' = navigations + 1
  /\ responseStatus' \in OkStatuses
  /\ \E first \in DocsAt(url) :
       \E second \in IF isCloudflareChallengePage(first.text)
                     THEN DocsAt(url)
                     ELSE {first} :
         /\ content' = second
         /\ fpExit' = "return"
         /\ fpPc' = "finally"
         /\ challengeStreak' = 0
         /\ UNCHANGED << error, waitMs, jitter >>
  /\ UNCHANGED << url, attempt >>
  /\ UNCHANGED << mainVars, fdVars, browserVars, classVars, pureVars >>

\* a status below 400: the content is read, and read once more after 8 s
\* when it is a challenge page
FP_Content ==
  /\ fpPc = "goto"
  /\ navigations' = navigations + 1
  /\ responseStatus' \in OkStatuses
  /\ \E first \in DocsAt(url) :
       \E second \in IF isCloudflareChallengePage(first.text)
                     THEN DocsAt(url)
                     ELSE {first} :
         /\ content' = second
         /\ IF isCloudflareChallengePage(second.text)
            THEN Catch("challenge")
            ELSE /\ fpExit' = "return"
                 /\ fpPc' = "finally"
                 /\ challengeStreak' = 0
                 /\ UNCHANGED << error, waitMs, jitter >>
  /\ UNCHANGED << url, attempt >>
  /\ UNCHANGED << mainVars, fdVars, browserVars, classVars, pureVars >>

\* await sleep(waitMs), in the catch block
FP_Sleep ==
  /\ fpPc = "sleep"
  /\ fpPc' = "finally"
  /\ UNCHANGED << url, attempt, content, error, waitMs, fpExit, navigations,
                  responseStatus,
                  jitter, challengeStreak >>
  /\ UNCHANGED << mainVars, fdVars, browserVars, classVars, pureVars >>

\* a plausible slip: the page is closed after a try block that ended
\* normally or is retried, not on the way out with the last error
FP_Finally_LeakOnThrow ==
  /\ fpPc = "finally"
  /\ openPages' = IF fpExit = "throw" THEN openPages ELSE openPages - 1
  /\ IF fpExit = "retry"
     THEN /\ attempt' = attempt + 1
          /\ fpPc' = IF attempt + 1 <= retries THEN "newPage" ELSE "returned"
          /\ content' = NoDoc
     ELSE /\ fpPc' = IF fpExit = "return" THEN "returned" ELSE "thrown"
          /\ UNCHANGED << attempt, content >>
  /\ waitMs' = 0
  /\ jitter' = 0
  /\ responseStatus' = 0
  /\ UNCHANGED << browserInstance, launches, url, error, fpExit,
                  navigations, challengeStreak >>
  /\ UNCHANGED << mainVars, fdVars, classVars, pureVars >>

\* what session recovery would do: after 3 consecutive challenge failures
\* close the browser and launch a fresh one for the next attempt
FP_Finally_RecreateSession ==
  /\ fpPc = "finally"
  /\ openPages' = openPages - 1
  /\ IF fpExit = "retry" /\ challengeStreak >= 3
     THEN /\ launches' = launches + 1
          /\ browserInstance' = launches + 1
     ELSE UNCHANGED << browserInstance, launches >>
  /\ IF fpExit = "retry"
     THEN /\ attempt' = attempt + 1
          /\ fpPc' = IF attempt + 1 <= retries THEN "newPage" ELSE "returned"
          /\ content' = NoDoc
     ELSE /\ fpPc' = IF fpExit = "return" THEN "returned" ELSE "thrown"
          /\ UNCHANGED << attempt, content >>
  /\ waitMs' = 0
  /\ jitter' = 0
  /\ responseStatus' = 0
  /\ UNCHANGED << url, error, fpExit, navigations, challengeStreak >>
  /\ UNCHANGED << mainVars, fdVars, classVars, pureVars >>

\* finally { await page.close() }, then the next attempt, the return or the throw
FP_Finally ==
  /\ fpPc = "finally"
  /\ openPages' = openPages - 1
  /\ IF fpExit = "retry"
     THEN \* attempt++, and the loop ends (returning undefined) past retries
          /\ attempt' = attempt + 1
          /\ fpPc' = IF attempt + 1 <= retries THEN "newPage" ELSE "returned"
          /\ content' = NoDoc
     ELSE /\ fpPc' = IF fpExit = "return" THEN "returned" ELSE "thrown"
          /\ UNCHANGED << attempt, content >>
  /\ waitMs' = 0
  /\ jitter' = 0
  /\ responseStatus' = 0
  /\ UNCHANGED << browserInstance, launches, url, error, fpExit,
                  navigations, challengeStreak >>
  /\ UNCHANGED << mainVars, fdVars, classVars, pureVars >>

(***************************************************************************)
(* fetchLetterboxdData(username, year)                                     *)
(***************************************************************************)
CallFetchLetterboxdData(y) ==
  /\ year' = y
  /\ page' = 1
  /\ hasMorePages' = TRUE
  /\ allEntries' = <<>>
  /\ served' = <<>>
  /\ pageRequests' = 0
  /\ fdPc' = "loop"

\* while (hasMorePages) { ... await fetchPageWithPuppeteer(url)
FD_Request ==
  /\ fdPc = "loop"
  /\ hasMorePages
  /\ page <= MaxPage
  /\ fpPc = "idle"
  /\ CallFetchPage(Target("diary", year, page))
  /\ pageRequests' = pageRequests + 1
  /\ fdPc' = "await"
  /\ UNCHANGED << year, page, hasMorePages, allEntries, served >>
  /\ UNCHANGED << mainVars, browserVars, classVars, pureVars >>

\* a plausible slip: the entries of a page are put in front (unshift)
push_InFront(list, entries) == entries \o list

\* allEntries.push(...entries)
push(list, entries) == list \o entries

\* a plausible slip: an empty page does not end the loop
isEmptyPage_Never(entries) == FALSE

\* if (entries.length === 0)
isEmptyPage(entries) == Len(entries) = 0

\* the try block after the page came back
FD_OnPage ==
  /\ fdPc = "await"
  /\ fpPc = "returned"
  /\ LET parsed == parseDiaryEntries(content, year)
     IN  /\ served' = Append(served, content)
         /\ IF isEmptyPage(parsed.entries)
            THEN /\ hasMorePages' = FALSE
                 /\ UNCHANGED << allEntries, page >>
            ELSE /\ allEntries' = push(allEntries, parsed.entries)
                 /\ IF ~parsed.hasMore
                    THEN /\ hasMorePages' = FALSE
                         /\ UNCHANGED page
                    ELSE /\ page' = page + 1
                         /\ UNCHANGED hasMorePages
  /\ fdPc' = "loop"
  /\ LeaveFetchPage(FALSE)
  /\ UNCHANGED << year, pageRequests >>
  /\ UNCHANGED << mainVars, browserVars, classVars, pureVars >>

\* a plausible slip: only a blocked page is fatal, page 1 is not looked at
shouldRethrow_ChallengeOnly(err, pg) == err.kind = "challenge"

\* a plausible slip: every page failure is fatal
shouldRethrow_Always(err, pg) == TRUE

\* if (isCloudflareError || page === 1)
shouldRethrow(err, pg) == err.kind = "challenge" \/ pg = 1

\* the catch block of the loop
FD_OnError ==
  /\ fdPc = "await"
  /\ fpPc = "thrown"
  /\ IF shouldRethrow(error, page)
     THEN /\ fdPc' = "threw"
          /\ UNCHANGED hasMorePages
     ELSE /\ hasMorePages' = FALSE
          /\ fdPc' = "loop"
  /\ LeaveFetchPage(shouldRethrow(error, page))
  /\ UNCHANGED << year, page, allEntries, served, pageRequests >>
  /\ UNCHANGED << mainVars, browserVars, classVars, pureVars >>

\* return allEntries
FD_Return ==
  /\ fdPc = "loop"
  /\ ~hasMorePages
  /\ fdPc' = "returned"
  /\ UNCHANGED << year, page, hasMorePages, allEntries, served, pageRequests >>
  /\ UNCHANGED << mainVars, browserVars, fpVars, classVars, pureVars >>

(***************************************************************************)
(* fetchProfileData(username)                                              *)
(***************************************************************************)
\* main(): await fetchProfileData(username), which fetches the profile page
Main_FetchProfile ==
  /\ pc = "fetchProfile"
  /\ fpPc = "idle"
  /\ CallFetchPage(Target("profile", 0, 0))
  /\ pc' = "profile"
  /\ UNCHANGED << svg, years, profileData, filmEntries, fetchNo >>
  /\ UNCHANGED << fdVars, browserVars, classVars, pureVars >>

\* the try block of fetchProfileData returns the parsed profile
Profile_Return ==
  /\ pc = "profile"
  /\ fpPc = "returned"
  /\ profileData' = parseProfile(content, Username)
  /\ pc' = "fetchDiary"
  /\ LeaveFetchPage(FALSE)
  /\ UNCHANGED << svg, years, filmEntries, fetchNo >>
  /\ UNCHANGED << fdVars, browserVars, classVars, pureVars >>

\* the catch block of fetchProfileData returns the fallback values
Profile_Catch ==
  /\ pc = "profile"
  /\ fpPc = "thrown"
  /\ profileData' = profileFallback(Username)
  /\ pc' = "fetchDiary"
  /\ LeaveFetchPage(FALSE)
  /\ UNCHANGED << svg, years, filmEntries, fetchNo >>
  /\ UNCHANGED << fdVars, browserVars, classVars, pureVars >>

(***************************************************************************)
(* tryFetchMultipleYears(username, startYear) and                          *)
(* fetchSpecificYears(username, years), as main() calls them               *)
(***************************************************************************)
\* if (years.length === 1) tryFetchMultipleYears(username, years[0])
\* else fetchSpecificYears(username, years); either starts with years[0]
Main_FetchDiary ==
  /\ pc = "fetchDiary"
  /\ filmEntries' = <<>>
  /\ fetchNo' = 1
  /\ CallFetchLetterboxdData(years[1])
  /\ pc' = "diary"
  /\ UNCHANGED << svg, years, profileData >>
  /\ UNCHANGED << browserVars, fpVars, classVars, pureVars >>

\* allEntries = allEntries.concat(entries)
concat(list, entries) == list \o entries

\* a plausible slip: the break is missing, the loop runs to its end
breaksLoop_Never(entries) == FALSE

\* if (entries.length > 0) { ...; break; }
breaksLoop(entries) == Len(entries) > 0

\* tryFetchMultipleYears: fetchLetterboxdData has returned the entries of
\* startYear (fetchNo = 1) or of the loop's year (fetchNo > 1)
TryFetch_OnReturn ==
  /\ pc = "diary"
  /\ Len(years) = 1
  /\ fdPc = "returned"
  /\ filmEntries' = concat(filmEntries, allEntries)
  /\ LET startYear == years[1]
         \* the year the for loop would fetch next
         nextYear  == startYear - fetchNo
     IN  IF /\ \/ fetchNo = 1 /\ Len(concat(filmEntries, allEntries)) = 0
               \/ fetchNo > 1 /\ ~breaksLoop(allEntries)
            /\ nextYear >= startYear - 2
         THEN /\ fetchNo' = fetchNo + 1
              /\ CallFetchLetterboxdData(nextYear)
              /\ UNCHANGED pc
         ELSE /\ pc' = "generate"
              /\ fdPc' = "idle"
              /\ UNCHANGED << fetchNo, year, page, hasMorePages, allEntries,
                              served, pageRequests >>
  /\ UNCHANGED << svg, years, profileData >>
  /\ UNCHANGED << browserVars, fpVars, classVars, pureVars >>

\* fetchSpecificYears: for (const year of years)
FetchSpecific_OnReturn ==
  /\ pc = "diary"
  /\ Len(years) > 1
  /\ fdPc = "returned"
  /\ filmEntries' = concat(filmEntries, allEntries)
  /\ IF fetchNo < Len(years)
     THEN /\ fetchNo' = fetchNo + 1
          /\ CallFetchLetterboxdData(years[fetchNo + 1])
          /\ UNCHANGED pc
     ELSE /\ pc' = "generate"
          /\ fdPc' = "idle"
          /\ UNCHANGED << fetchNo, year, page, hasMorePages, allEntries, served,
                          pageRequests >>
  /\ UNCHANGED << svg, years, profileData >>
  /\ UNCHANGED << browserVars, fpVars, classVars, pureVars >>

\* neither driver catches: the error reaches main()'s catch, process.exit(1)
Main_FetchThrows ==
  /\ pc = "diary"
  /\ fdPc = "threw"
  /\ pc' = "failed"
  /\ fdPc' = "idle"
  /\ UNCHANGED << year, page, hasMorePages, allEntries, served, pageRequests >>
  /\ UNCHANGED << svg, years, profileData, filmEntries, fetchNo >>
  /\ UNCHANGED << browserVars, fpVars, classVars, pureVars >>

(***************************************************************************)
(* The rest of main(): the graphs are generated and written, then the      *)
(* browser is closed; a write or a PNG export that throws ends in the      *)
(* catch block.  Of the graph written the run keeps, for each year drawn,  *)
(* the statistics row; the grid and the cells are computed from the same   *)
(* entries of the year and are followed in SpecGraph.  The time zone of    *)
(* the process is drawn where it is first used.                            *)
(***************************************************************************)
Main_Generate ==
  /\ pc = "generate"
  /\ \E tz \in TimeZones :
       svg' = << IF Len(years) > 1
                 THEN \* generateMultiYearSvg(filmEntries, { ...multiOptions })
                      LET sortedYears == sortDescending(years)
                      IN  [ yearIndex \in 1..Len(sortedYears) |->
                              [ year  |-> sortedYears[yearIndex],
                                stats |-> yearStats(filterYear(filmEntries,
                                            sortedYears[yearIndex], tz)) ] ]
                 ELSE \* generateSvg(filmEntries, { ...singleOptions })
                      << [ year  |-> years[1],
                           stats |-> yearStats(sortedEntries(filmEntries, years[1], tz)) ] >> >>
  /\ pc' = "closeBrowser"
  /\ UNCHANGED << years, profileData, filmEntries, fetchNo >>
  /\ UNCHANGED << fdVars, browserVars, fpVars, classVars, pureVars >>

\* fs.writeFileSync or svgToPng throws: catch (error) { process.exit(1) }
Main_GenerateThrows ==
  /\ pc = "generate"
  /\ pc' = "failed"
  /\ UNCHANGED << svg, years, profileData, filmEntries, fetchNo >>
  /\ UNCHANGED << fdVars, browserVars, fpVars, classVars, pureVars >>

\* await closeBrowser()
Main_CloseBrowser ==
  /\ pc = "closeBrowser"
  /\ browserInstance' = 0
  /\ pc' = "done"
  /\ UNCHANGED << launches, openPages >>
  /\ UNCHANGED << svg, years, profileData, filmEntries, fetchNo >>
  /\ UNCHANGED << fdVars, fpVars, classVars, pureVars >>

Next ==
  \/ Main_FetchProfile
  \/ FP_GetBrowser
  \/ FP_NewPage
  \/ FP_GotoThrows
  \/ FP_StatusError
  \/ FP_Content
  \/ FP_Sleep
  \/ FP_Finally
  \/ Profile_Return
  \/ Profile_Catch
  \/ Main_FetchDiary
  \/ FD_Request
  \/ FD_OnPage
  \/ FD_OnError
  \/ FD_Return
  \/ TryFetch_OnReturn
  \/ FetchSpecific_OnReturn
  \/ Main_FetchThrows
  \/ Main_Generate
  \/ Main_GenerateThrows
  \/ Main_CloseBrowser

Spec == Init /\ [][Next]_vars

(***************************************************************************)
(* fetchPageWithPuppeteer on its own: a caller makes up to MaxCalls calls, *)
(* one after another, for the profile page or a diary page.                *)
(***************************************************************************)
MaxCalls == 2

\* await fetchPageWithPuppeteer(url), as fetchProfileData and
\* fetchLetterboxdData call it
Caller_Call ==
  /\ fpPc = "idle"
  /\ pageRequests < MaxCalls
  /\ \E target \in {Target("profile", 0, 0), Target("diary", 2024, 1)} :
       CallFetchPage(target)
  /\ pageRequests' = pageRequests + 1
  /\ UNCHANGED << fdPc, year, page, hasMorePages, allEntries, served >>
  /\ UNCHANGED << mainVars, browserVars, classVars, pureVars >>

\* the caller takes the content or catches the error
Caller_Take ==
  /\ fpPc \in {"returned", "thrown"}
  /\ LeaveFetchPage(FALSE)
  /\ UNCHANGED << mainVars, fdVars, browserVars, classVars, pureVars >>

NextFetchPage ==
  \/ Caller_Call
  \/ FP_GetBrowser
  \/ FP_NewPage
  \/ FP_GotoThrows
  \/ FP_StatusError
  \/ FP_Content
  \/ FP_Sleep
  \/ FP_Finally
  \/ Caller_Take

InitFetchPage ==
  /\ Init
  /\ years = <<2024>>

\* every awaited step completes: a call is one thread of control, and each
\* navigation, wait and sleep in it has a timeout
FairFetchPage ==
  InitFetchPage /\ [][NextFetchPage]_vars /\ WF_vars(NextFetchPage)

(***************************************************************************)
(* The classifier on its own: every text of at most MaxTextLen tokens.     *)
(***************************************************************************)
RECURSIVE Texts(_)
Texts(n) ==
  IF n = 0 THEN { <<>> }
  ELSE Texts(n - 1) \cup { Append(t, tok) : t \in Texts(n - 1), tok \in Tokens }

InitClassify ==
  /\ InitProgram
  /\ years = <<2024>>
  /\ cHtml \in Texts(MaxTextLen)
  /\ cVerdict = "unset"
  /\ input = NoInput
  /\ output = <<>>

Classify ==
  /\ cVerdict = "unset"
  /\ cVerdict' = IF isCloudflareChallengePage(cHtml) THEN "challenge" ELSE "content"
  /\ UNCHANGED cHtml
  /\ UNCHANGED << mainVars, fdVars, browserVars, fpVars, pureVars >>

NextClassify == Classify

SpecClassify == InitClassify /\ [][NextClassify]_vars

(***************************************************************************)
(* generateSvg on its own, for a year, a week start and a time zone: in    *)
(* count mode on up to MaxPerDay entries on each of the first and the last *)
(* day of the year, with entries on the days just outside the year, newest *)
(* first as a diary lists them; in rating mode on every list of at most    *)
(* MaxEntries films of one day.                                            *)
(***************************************************************************)
MaxPerDay == 4
MaxEntries == 3

RECURSIVE Lists(_, _)
Lists(pool, n) ==
  IF n = 0 THEN { <<>> }
  ELSE Lists(pool, n - 1) \cup { Append(l, e) : l \in Lists(pool, n - 1), e \in pool }

EntryOn(date, rating) == [date |-> date, title |-> "Alien", rating |-> rating]

Repeat(e, k) == [i \in 1..k |-> e]

\* entries around the edges of year y, newest first: after on January 1 of
\* y + 1, last on December 31, first on January 1, before on December 31 of
\* y - 1
YearEdgeEntries(y, after, last, first, before) ==
  Repeat(EntryOn(DateUTC(y + 1, 0, 1), <<40>>), after)
    \o Repeat(EntryOn(DateUTC(y, 11, 31), <<40>>), last)
    \o Repeat(EntryOn(DateUTC(y, 0, 1), <<40>>), first)
    \o Repeat(EntryOn(DateUTC(y - 1, 11, 31), <<40>>), before)

\* unrated, 2.5 stars, 4.5 stars
RatingSamples == { <<>>, <<25>>, <<45>> }

GraphInputs ==
  { [fn |-> "generateSvg", tz |-> tz,
     entries |-> YearEdgeEntries(y, after, last, first, before),
     options |-> [year |-> y, weekStart |-> w, mode |-> "count"]] :
      after \in 0..2, last \in 0..MaxPerDay, first \in 0..MaxPerDay,
      before \in 0..1, tz \in TimeZones, y \in {2023, 2024},
      w \in {"sunday", "monday"} }
  \cup
  { [fn |-> "generateSvg", tz |-> 0, entries |-> l,
     options |-> [year |-> 2024, weekStart |-> w, mode |-> "rating"]] :
      l \in Lists({ EntryOn(DateUTC(2024, 0, 2), r) : r \in RatingSamples }, MaxEntries),
      w \in {"sunday", "monday"} }

InitGraph ==
  /\ InitProgram
  /\ years = <<2024>>
  /\ cHtml = <<>>
  /\ cVerdict = "unset"
  /\ input \in GraphInputs
  /\ output = <<>>

Render ==
  /\ input.fn = "generateSvg"
  /\ output = <<>>
  /\ output' = << generateSvg(input.entries, input.options, input.tz) >>
  /\ UNCHANGED input
  /\ UNCHANGED << mainVars, fdVars, browserVars, fpVars, classVars >>

NextGraph == Render

SpecGraph == InitGraph /\ [][NextGraph]_vars

(***************************************************************************)
(* calculateStreak on its own: every list of at most MaxStreakEntries      *)
(* entries dated on six days around a turn of the year.                    *)
(***************************************************************************)
MaxStreakEntries == 4

\* December 30 and 31, January 1, and after a gap January 3, 4 and 5
StreakDates ==
  { DateUTC(2023, 11, 30), DateUTC(2023, 11, 31), DateUTC(2024, 0, 1),
    DateUTC(2024, 0, 3), DateUTC(2024, 0, 4), DateUTC(2024, 0, 5) }

StreakInputs ==
  { [fn |-> "calculateStreak", entries |-> l] :
      l \in Lists({ EntryOn(d, <<>>) : d \in StreakDates }, MaxStreakEntries) }

InitStreak ==
  /\ InitProgram
  /\ years = <<2024>>
  /\ cHtml = <<>>
  /\ cVerdict = "unset"
  /\ input \in StreakInputs
  /\ output = <<>>

Streak ==
  /\ input.fn = "calculateStreak"
  /\ output = <<>>
  /\ output' = << calculateStreak(input.entries) >>
  /\ UNCHANGED input
  /\ UNCHANGED << mainVars, fdVars, browserVars, fpVars, classVars >>

NextStreak == Streak

SpecStreak == InitStreak /\ [][NextStreak]_vars

(***************************************************************************)
(* parseDiaryEntries on its own: every page of at most MaxRows rows drawn  *)
(* from a pool.  Here a row also shows what the parser does not read: the  *)
(* month and year printed in its calendar column (on the first row of a    *)
(* month only, <<>> otherwise) and its day number.                         *)
(***************************************************************************)
MaxRows == 3

Printed(row, calendar, day) ==
  [dayUrl |-> row.dayUrl, title |-> row.title, rated |-> row.rated,
   calendar |-> calendar, day |-> day]

ParseYear == 2024

RowPool ==
  { \* the first row of February: permalink 2024-02-01, prints Feb 2024
    Printed(Row("2024", "02", "01", "Ran", <<10>>), <<"Feb", "2024">>, "01"),
    \* permalink 2024-03-05, prints no month
    Printed(GoodRow(ParseYear), <<>>, "05"),
    \* no permalink, prints no month: day 5 of the month carried over
    Printed([dayUrl |-> <<>>, title |-> "Heat", rated |-> <<>>], <<>>, "05"),
    \* no permalink, prints Mar 2024 itself
    Printed([dayUrl |-> <<>>, title |-> "Solaris", rated |-> <<6>>], <<"Mar", "2024">>, "03"),
    \* a permalink of the year before
    Printed(OtherYearRow(ParseYear), <<>>, "01"),
    \* a permalink but no title
    Printed(NoTitleRow(ParseYear), <<>>, "05"),
    \* a permalink without the "for" part
    Printed(BadUrlRow(ParseYear), <<>>, "05"),
    \* permalinks whose last part is no day of the month: February 31,
    \* January 0, and a day that is no number
    Printed(Row("2024", "02", "31", "Brazil", <<7>>), <<>>, "31"),
    Printed(Row("2024", "01", "00", "Stalker", <<9>>), <<>>, "00"),
    Printed(Row("2024", "03", "xx", "Persona", <<>>), <<>>, "xx") }

\* the markers of the rating span: rated-0 .. rated-10
RatingMarkers == 0..10

\* a rated row followed by an unrated one, for every marker
MarkerPages ==
  { << Printed(Row("2024", "03", "05", "Alien", <<marker>>), <<>>, "05"),
       Printed(UnratedRow(ParseYear), <<>>, "31") >> : marker \in RatingMarkers }

ParseInputs ==
  { [fn |-> "parseDiaryEntries", year |-> ParseYear,
     html |-> Doc(PlainText, TRUE, rows, "none")] :
       rows \in Lists(RowPool, MaxRows) \cup MarkerPages }

InitParse ==
  /\ InitProgram
  /\ years = <<2024>>
  /\ cHtml = <<>>
  /\ cVerdict = "unset"
  /\ input \in ParseInputs
  /\ output = <<>>

Parse ==
  /\ input.fn = "parseDiaryEntries"
  /\ output = <<>>
  /\ output' = << parseDiaryEntries(input.html, input.year) >>
  /\ UNCHANGED input
  /\ UNCHANGED << mainVars, fdVars, browserVars, fpVars, classVars >>

NextParse == Parse

SpecParse == InitParse /\ [][NextParse]_vars

(***************************************************************************)
(* The generators called twice with the same entries and options.  Each    *)
(* call runs in a process whose time zone is one of TimeZones; output      *)
(* collects [tz, text] of the calls made.                                  *)
(***************************************************************************)
TwiceInputs ==
  { [fn |-> "generateSvg",
     entries |-> YearEdgeEntries(y, after, last, first, before),
     options |-> [year |-> y, weekStart |-> w, mode |-> "count"]] :
      after \in 0..1, last \in 0..1, first \in 0..1, before \in 0..1,
      y \in {2023, 2024}, w \in {"sunday", "monday"} }
  \cup
  { [fn |-> "generateMultiYearSvg",
     entries |-> YearEdgeEntries(2024, after, last, first, 0),
     options |-> [years |-> ys, weekStart |-> "sunday", mode |-> "count"]] :
      after \in 0..1, last \in 0..1, first \in 0..1,
      ys \in { <<2024>>, <<2024, 2025>> } }

InitTwice ==
  /\ InitProgram
  /\ years = <<2024>>
  /\ cHtml = <<>>
  /\ cVerdict = "unset"
  /\ input \in TwiceInputs
  /\ output = <<>>

RenderCall ==
  /\ input.fn = "generateSvg"
  /\ Len(output) < 2
  /\ \E tz \in TimeZones :
       output' = Append(output,
                   [tz |-> tz, text |-> generateSvg(input.entries, input.options, tz)])
  /\ UNCHANGED input
  /\ UNCHANGED << mainVars, fdVars, browserVars, fpVars, classVars >>

RenderMultiCall ==
  /\ input.fn = "generateMultiYearSvg"
  /\ Len(output) < 2
  /\ \E tz \in TimeZones :
       output' = Append(output,
                   [tz |-> tz, text |-> generateMultiYearSvg(input.entries, input.options, tz)])
  /\ UNCHANGED input
  /\ UNCHANGED << mainVars, fdVars, browserVars, fpVars, classVars >>

NextTwice ==
  \/ RenderCall
  \/ RenderMultiCall

SpecTwice == InitTwice /\ [][NextTwice]_vars

(***************************************************************************)
(* What main() writes for one year: the graph and the JSON export, both    *)
(* from the same entries, year and weekStart.                              *)
(***************************************************************************)
ExportInputs ==
  { [fn |-> "export", tz |-> tz,
     entries |-> YearEdgeEntries(2024, 0, last, first, before),
     options |-> [year |-> 2024, weekStart |-> w, mode |-> "count"]] :
      last \in 0..MaxPerDay, first \in 0..MaxPerDay, before \in 0..2,
      tz \in TimeZones, w \in {"sunday", "monday"} }
  \cup
  { [fn |-> "export", tz |-> 0, entries |-> l,
     options |-> [year |-> 2024, weekStart |-> w, mode |-> "rating"]] :
      l \in Lists({ EntryOn(DateUTC(2024, 0, 2), r) : r \in RatingSamples }, MaxEntries),
      w \in {"sunday", "monday"} }

InitExport ==
  /\ InitProgram
  /\ years = <<2024>>
  /\ cHtml = <<>>
  /\ cVerdict = "unset"
  /\ input \in ExportInputs
  /\ output = <<>>

Export ==
  /\ input.fn = "export"
  /\ output = <<>>
  /\ output' = << [ svg  |-> generateSvg(input.entries, input.options, input.tz),
                    json |-> buildJsonExport(input.entries,
                               [year |-> input.options.year,
                                weekStart |-> input.options.weekStart]) ] >>
  /\ UNCHANGED input
  /\ UNCHANGED << mainVars, fdVars, browserVars, fpVars, classVars >>

NextExport == Export

SpecExport == InitExport /\ [][NextExport]_vars

(***************************************************************************)
(* Properties.                                                             *)
(***************************************************************************)
\* the entries the parser takes from the documents served so far
RECURSIVE EntriesOf(_, _)
EntriesOf(docs, y) ==
  IF docs = <<>> THEN <<>>
  ELSE parseDiaryEntries(Head(docs), y).entries \o EntriesOf(Tail(docs), y)

\* C1: when the fetch of page 1 of a diary year has thrown (all attempts
\* failed), fetchLetterboxdData throws that same error and does not return,
\* and the driver (tryFetchMultipleYears or fetchSpecificYears) lets it
\* through: the run ends in main()'s catch with that error, and no further
\* year is fetched.
C1_Page1FailureIsFatal ==
  /\ [][ (fdPc = "await" /\ fpPc = "thrown" /\ page = 1)
           => (fdPc' = "threw" /\ error' = error) ]_vars
  /\ [][ fdPc = "threw"
           => (pc' = "failed" /\ error' = error /\ fetchNo' = fetchNo) ]_vars

\* C1 witness: a run has failed on a plain HTTP error of page 1 of the second
\* year fetched, raised by the last attempt
C1_Witness ==
  /\ pc = "failed"
  /\ error = [kind |-> "http", attempt |-> retries]
  /\ page = 1
  /\ fetchNo = 2

\* C2 as claimed: a failure of page N > 1 never makes fetchLetterboxdData
\* throw, whatever its kind: whenever the function has thrown, it was on page 1.
C2_LaterPageFailureNeverThrows ==
  fdPc = "threw" => page = 1

\* C2, amended: a failure of page N > 1 that is not a challenge error (a
\* navigation error, or a status error that is no Cloudflare response) ends
\* pagination and the entries of pages 1..N-1 are returned; a challenge error
\* is rethrown on every page.
C2_NonChallengeLaterPageFailureIsSoft ==
  /\ [][ (fdPc = "await" /\ fpPc = "thrown" /\ page > 1 /\ error.kind # "challenge")
           => /\ fdPc' = "loop"
              /\ ~hasMorePages'
              /\ Len(served) = page - 1
              /\ allEntries' = EntriesOf(served, year) ]_vars
  /\ [][ (fdPc = "loop" /\ ~hasMorePages)
           => (fdPc' = "returned" /\ allEntries' = allEntries) ]_vars
  /\ [][ (fdPc = "await" /\ fpPc = "thrown" /\ error.kind = "challenge")
           => (fdPc' = "threw" /\ error' = error) ]_vars

\* C2 witness: the function returned the entries of page 1 after its request
\* for page 2 failed
C2_Witness ==
  /\ fdPc = "returned"
  /\ pageRequests = 2
  /\ Len(served) = 1
  /\ page = 2
  /\ Len(allEntries) = FullPageRows

\* a document without a diary table, or with a table of zero rows
NoRows(doc) == ~doc.table \/ doc.rows = <<>>

\* C3: a served page without a diary table or with zero rows is the last
\* page requested for that year, also when its "next" control is enabled;
\* a full page with "next" followed by a page of zero rows gives exactly the
\* full page's entries and two page requests.
C3_EmptyPageEndsPagination ==
  /\ \A i \in 1..Len(served) :
       NoRows(served[i]) => (i = Len(served) /\ pageRequests = i /\ ~hasMorePages)
  /\ (Len(served) = 2 /\ served[1] = FullPage(year) /\ served[2].rows = <<>>)
       => (Len(allEntries) = FullPageRows /\ pageRequests = 2 /\ ~hasMorePages)

\* C3 witness: the function returned after a full page and an empty page
\* that carries an enabled "next" control
C3_Witness ==
  /\ fdPc = "returned"
  /\ Len(served) = 2
  /\ served[1] = FullPage(year)
  /\ served[2].table /\ served[2].rows = <<>> /\ served[2].next = "enabled"

DelayBase(a, isCloudflareRetry) == retryDelayMs(a, isCloudflareRetry, 0)

\* C5 as claimed: the delay about to be slept grows exponentially with the
\* attempt number (its jitter-free part is geometric: the square of the delay
\* of attempt a is the product of those of attempts a - 1 and a + 1), the
\* jitter adds at most a second, and a challenge retry waits longer than
\* another retry of the same attempt.
C5_ExponentialDelay ==
  fpPc = "sleep" =>
    LET cf == error.kind = "challenge"
    IN  /\ waitMs >= DelayBase(attempt, cf)
        /\ waitMs <= DelayBase(attempt, cf) + 1000
        /\ DelayBase(attempt, TRUE) > DelayBase(attempt, FALSE)
        /\ attempt >= 2 =>
             DelayBase(attempt, cf) * DelayBase(attempt, cf)
               = DelayBase(attempt - 1, cf) * DelayBase(attempt + 1, cf)

\* C5, amended: the delay about to be slept is base * attempt seconds plus
\* the jitter (below one second, rounded to a millisecond), with base 3 for
\* a challenge retry and 2 for any other: it grows linearly with the attempt
\* number and retryDelayMs applies no cap.
C5_LinearDelay ==
  fpPc = "sleep" =>
    LET baseMs == IF error.kind = "challenge" THEN 3000 ELSE 2000
    IN  /\ waitMs = baseMs * attempt + round10(jitter)
        /\ waitMs >= baseMs * attempt
        /\ waitMs <= baseMs * attempt + 1000
        /\ attempt = error.attempt

\* C5 witness: the longest delay of a call, after a challenge on attempt 4
\* with the jitter rounding up to a full second
C5_Witness ==
  /\ fpPc = "sleep"
  /\ attempt = 4
  /\ error.kind = "challenge"
  /\ waitMs = 13000

\* what the text of a page shows, phrase by phrase
HasStrongMarker(html) ==
  \/ test(<<"cloudflare", " ray id">>, html)
  \/ test(<<"cf_chl">>, html)
  \/ test(<<"challenge", "-platform">>, html)
HasWeakMarker(html) ==
  \E phrase \in {"just a moment", "checking your browser", "attention required"} :
     test(<<phrase>>, html)
MentionsVendor(html) == test(<<"cloudflare">>, html)
HasVerificationPhrase(html) ==
  \E phrase \in {"verify", "security check", "browser check", "challenge"} :
     test(<<phrase>>, html)

\* C6: the verdict on a text is "challenge" exactly when the text has a
\* strong marker, or a weak marker together with the vendor's name and a
\* verification phrase; a weak marker with fewer co-signals and the empty
\* text are content.
C6_TwoTierClassification ==
  cVerdict # "unset" =>
    /\ (cVerdict = "challenge") <=>
         \/ HasStrongMarker(cHtml)
         \/ HasWeakMarker(cHtml) /\ MentionsVendor(cHtml) /\ HasVerificationPhrase(cHtml)
    /\ (HasWeakMarker(cHtml) /\ ~HasStrongMarker(cHtml)
          /\ ~(MentionsVendor(cHtml) /\ HasVerificationPhrase(cHtml)))
         => cVerdict = "content"
    /\ cHtml = <<>> => cVerdict = "content"

\* C6 witness: a text with a weak marker and the vendor's name but no
\* verification phrase was classified as content
C6_Witness ==
  /\ cVerdict = "content"
  /\ HasWeakMarker(cHtml)
  /\ MentionsVendor(cHtml)
  /\ ~HasVerificationPhrase(cHtml)

\* C7 as claimed: an attempt that read a page with the diary table ends in
\* returning it, never in an error.
C7_TablePageAlwaysAccepted ==
  (fpPc \in {"sleep", "finally"} /\ content.table) => fpExit = "return"

\* C7, amended: an attempt that read a page with the diary table returns it
\* unless the page's text has a strong marker, or a weak marker with the
\* vendor's name and a verification phrase; then the attempt ends in a
\* challenge error although the table is there.  Weak markers alone never
\* reject the page.
C7_TablePageAcceptedUnlessClassified ==
  (fpPc \in {"sleep", "finally"} /\ content.table) =>
    LET classified ==
          \/ HasStrongMarker(content.text)
          \/ HasWeakMarker(content.text) /\ MentionsVendor(content.text)
               /\ HasVerificationPhrase(content.text)
    IN  /\ ~classified => fpExit = "return"
        /\ classified => (fpExit # "return" /\ error.kind = "challenge")

\* C7 witness: a page with the diary table and a weak marker in its text is
\* about to be returned
C7_Witness ==
  /\ fpPc = "finally"
  /\ fpExit = "return"
  /\ content.table
  /\ HasWeakMarker(content.text)

\* C8 as claimed: after some small fixed number of consecutive challenge
\* failures the browser is closed and launched anew before the next attempt.
\* The longest run of challenge failures that a next attempt can follow is
\* 2 * retries - 1 (all attempts for the profile page, then all but one for
\* page 1 of the diary), so by then a second launch must have happened.
C8_SessionRecreatedAfterChallenges ==
  (fpPc = "goto" /\ challengeStreak >= 2 * retries - 1) => launches > 1

\* C8, amended: no run of challenge failures makes the fetcher close or
\* relaunch the browser: the browser launched on first use serves every
\* attempt, and only the page is closed and opened anew for each attempt.
C8_SessionKeptAcrossChallenges ==
  /\ launches <= 1
  /\ fpPc \in {"newPage", "goto", "sleep", "finally"} =>
       (browserInstance = 1 /\ launches = 1)
  /\ fpPc \in {"goto", "sleep", "finally"} => openPages = 1
  /\ fpPc = "newPage" => openPages = 0

\* C8 witness: an attempt starts after the longest possible run of
\* challenge failures, on the browser launched first
C8_Witness ==
  /\ fpPc = "goto"
  /\ challengeStreak = 2 * retries - 1
  /\ browserInstance = 1
  /\ launches = 1

\* C9 as claimed: when main() has finished, by success or in its catch
\* block, the browser has been closed.
C9_BrowserClosedWhenRunEnds ==
  pc \in {"done", "failed"} => browserInstance = 0

\* C10 as claimed: when the profile page could not be fetched,
\* fetchProfileData returns (it does not throw) the username as display name,
\* no avatar, 0 followers, 0 following, a total film count of 0 and no
\* membership.
C10_ProfileFallbackIsZeroed ==
  [][ (pc = "profile" /\ fpPc = "thrown") =>
        /\ pc' = "fetchDiary"
        /\ profileData'.displayName = Username
        /\ profileData'.profileImage = "null"
        /\ profileData'.followers = 0
        /\ profileData'.following = 0
        /\ "totalEntries" \in DOMAIN profileData'
        /\ profileData'.totalEntries = 0
        /\ ("memberStatus" \in DOMAIN profileData' => profileData'.memberStatus = "null")
    ]_vars

\* the entries of one document: its rows that the parser keeps, in the order
\* of the rows
PageEntries(doc, y) ==
  IF ~doc.table THEN <<>>
  ELSE LET kept == SelectSeq(doc.rows, LAMBDA row : parseRow(row, y) # <<>>)
       IN  [i \in 1..Len(kept) |-> parseRow(kept[i], y)[1]]

RECURSIVE PagesEntries(_, _)
PagesEntries(docs, y) ==
  IF docs = <<>> THEN <<>>
  ELSE PageEntries(Head(docs), y) \o PagesEntries(Tail(docs), y)

\* the year of a date, and the place of a year in the years argument
YearOf(date) == civil(date)[1]
PlaceOf(y, ys) == CHOOSE k \in 1..Len(ys) : ys[k] = y

\* C11: the k-th request of a fetchLetterboxdData call is for page k of its
\* year (pages 1, 2, 3, ... each once, none skipped); the list it holds is the
\* concatenation, page after page, of the kept rows of each page in row
\* order; and fetchSpecificYears appends each year's list behind the lists of
\* the years before it in its years argument.
C11_EntriesInPageAndYearOrder ==
  /\ [][ (fdPc = "loop" /\ fdPc' = "await")
           => /\ url' = Target("diary", year, Len(served) + 1)
              /\ pageRequests' = Len(served) + 1
              /\ page = Len(served) + 1 ]_vars
  /\ [](fdPc \in {"loop", "returned"} => allEntries = PagesEntries(served, year))
  /\ [][ (pc = "diary" /\ Len(years) > 1 /\ fdPc = "returned")
           => /\ year = years[fetchNo]
              /\ filmEntries' = filmEntries \o allEntries ]_vars
  /\ []((Len(years) > 1 /\ pc = "generate") =>
          \A i \in 1..(Len(filmEntries) - 1) :
             PlaceOf(YearOf(filmEntries[i].date), years)
               <= PlaceOf(YearOf(filmEntries[i + 1].date), years))

\* C11 witness: fetchSpecificYears has returned the entries of two years,
\* the second year read from a full page and a page of two rows
C11_Witness ==
  /\ pc = "generate"
  /\ Len(years) = 2
  /\ Len(served) = 2
  /\ served[1] = FullPage(years[2])
  /\ Len(filmEntries) > FullPageRows + 2
  /\ YearOf(filmEntries[1].date) = years[1]
  /\ filmEntries[Len(filmEntries) - 1].title = "Alien"
  /\ filmEntries[Len(filmEntries)].title = "Heat"
  /\ YearOf(filmEntries[Len(filmEntries)].date) = years[2]

\* C12: tryFetchMultipleYears fetches startYear, then startYear - 1, then
\* startYear - 2, never more than three years; it goes on to the next year
\* exactly when nothing has been found so far and a fallback year is left,
\* so it stops at the first year with entries and its result holds entries
\* of one year at most.
C12_FallbackOnlyWhileEmpty ==
  /\ [][ (pc = "diary" /\ Len(years) = 1 /\ fdPc = "returned")
           => /\ year = years[1] - (fetchNo - 1)
              /\ filmEntries = <<>>
              /\ filmEntries' = allEntries
              /\ (fdPc' = "loop") <=> (Len(allEntries) = 0 /\ fetchNo < 3)
              /\ fdPc' = "loop" => (year' = year - 1 /\ fetchNo' = fetchNo + 1)
              /\ fdPc' # "loop" => (pc' = "generate" /\ fetchNo' = fetchNo) ]_vars
  /\ [](Len(years) = 1 => fetchNo <= 3)
  /\ []((Len(years) = 1 /\ pc = "generate") =>
          \A i \in 1..Len(filmEntries) :
             YearOf(filmEntries[i].date) = YearOf(filmEntries[1].date))

\* C12 witness: the third year fetched, startYear - 2, was the first with
\* entries
C12_Witness ==
  /\ pc = "generate"
  /\ Len(years) = 1
  /\ fetchNo = 3
  /\ Len(filmEntries) > 0
  /\ YearOf(filmEntries[1].date) = years[1] - 2

\* C13 as claimed: in a single-year run the number of films the graph shows
\* is the number of entries that were fetched, whichever year they came from.
C13_GraphShowsEveryFetchedEntry ==
  (Len(years) = 1 /\ pc \in {"closeBrowser", "done"}) =>
     svg[1][1].stats.totalFilms = Len(filmEntries)

\* the arguments and the result of the function applied on its own
Arg == input
Result == output[1]

\* a date of year y, by the first and the last day of the year
InYear(date, y) == DateUTC(y, 0, 1) <= date /\ date <= DateUTC(y, 11, 31)

\* how many entries of a list satisfy P
HowMany(entries, P(_)) == Cardinality({ i \in 1..Len(entries) : P(entries[i]) })

RECURSIVE SumOver(_, _)
SumOver(f, S) ==
  IF S = {} THEN 0
  ELSE LET x == CHOOSE x \in S : TRUE IN f[x] + SumOver(f, S \ {x})

\* the sum of all cells of a grid
GridSum(grid) ==
  SumOver([day \in DOMAIN grid |-> SumOver(grid[day], DOMAIN grid[day])], DOMAIN grid)

\* C14 as claimed: the cells of the grid built for year Y sum to the number
\* of entries dated in Y, each of them counted in a column of the grid.
C14_GridSumIsEntriesOfYear ==
  (output # <<>> /\ Arg.fn = "generateSvg") =>
     LET y == Arg.options.year
     IN  /\ GridSum(Result.grid)
              = HowMany(Arg.entries, LAMBDA e : InYear(e.date, y))
         /\ \A i \in 1..Len(Arg.entries) :
              InYear(Arg.entries[i].date, y) =>
                LET weekIndex == (Arg.entries[i].date - Result.startDate) \div 7
                IN  /\ weekIndex \in 0..(Result.totalWeeks - 1)
                    /\ Result.grid[(Arg.entries[i].date - Result.startDate) % 7][weekIndex] > 0

\* the entries the graph of year Y is drawn from, and those of one date
Listed == filterYear(Arg.entries, Arg.options.year, Arg.tz)
ListedOn(date) == SelectSeq(Listed, LAMBDA e : e.date = date)

\* getUTCDay of the configured week-start day
WeekStartDay == IF Arg.options.weekStart = "monday" THEN 1 ELSE 0

\* C15: the aligned start is a week-start day at most 6 days before
\* January 1; grid slot (row r, column w) counts exactly the entries dated
\* alignedStart + 7w + r, so an entry sits in the row of its weekday counted
\* from the week-start day; and the cell drawn at (r, w) carries that date
\* and that count.
C15_GridAlignedToWeekStart ==
  (output # <<>> /\ Arg.fn = "generateSvg") =>
     LET alignedStart == Result.startDate
     IN  /\ getUTCDay(alignedStart) = WeekStartDay
         /\ DateUTC(Arg.options.year, 0, 1) - alignedStart \in 0..6
         /\ \A r \in 0..6, w \in 0..(Result.totalWeeks - 1) :
              Result.grid[r][w] = Len(ListedOn(alignedStart + 7 * w + r))
         /\ \A i \in 1..Len(Listed) :
              LET r == (getUTCDay(Listed[i].date) + 7 - WeekStartDay) % 7
                  w == (Listed[i].date - alignedStart) \div 7
              IN  w \in 0..(Result.totalWeeks - 1) => Result.grid[r][w] > 0
         /\ \A cell \in Result.cells :
              /\ DateOfISO(cell.date) = alignedStart + 7 * cell.week + cell.day
              /\ cell.count = Result.grid[cell.day][cell.week]

\* C15 witness: with Monday start the grid of 2023 starts 6 days before
\* January 1, a Sunday, and the entries of Sunday December 31 are in the
\* last row of the last column
C15_Witness ==
  /\ output # <<>>
  /\ Arg.fn = "generateSvg"
  /\ Arg.options.weekStart = "monday"
  /\ DateUTC(Arg.options.year, 0, 1) - Result.startDate = 6
  /\ Result.grid[6][Result.totalWeeks - 1] = 2
  /\ Result.grid[6][0] = 1

\* the largest count of a drawn cell, that is of a day of the year
MaxCountOfYear == 
  LET counts == { cell.count : cell \in Result.cells }
  IN  CHOOSE m \in counts : \A c \in counts : c <= m

\* C17 as claimed: in count mode a day without entries is drawn at level 0
\* and a day with c entries at level min(4, ceil(4c / maxCount)), maxCount
\* being the largest count of a day of that year; so a day whose count is
\* that maximum is drawn at level 4.
C17_CountLevelByYearMaximum ==
  (output # <<>> /\ Arg.fn = "generateSvg" /\ Arg.options.mode = "count") =>
     \A cell \in Result.cells :
        /\ cell.count = 0 => cell.level = 0
        /\ cell.count > 0 =>
             cell.level = min(4, ceilDiv(4 * cell.count, MaxCountOfYear))
        /\ (cell.count > 0 /\ cell.count = MaxCountOfYear) => cell.level = 4

\* the ratings of a list of entries added up, an unrated entry adding 0
RECURSIVE SumRatings(_)
SumRatings(entries) ==
  IF entries = <<>> THEN 0
  ELSE (IF Head(entries).rating = <<>> THEN 0 ELSE Head(entries).rating[1])
       + SumRatings(Tail(entries))

\* C18: in rating mode a day with entries is drawn at the level of its
\* average rating a (the ratings of the day's films added up, an unrated film
\* adding 0, over the number of films): 1 for a < 2.5, 2 for 2.5 <= a < 3.5,
\* 3 for 3.5 <= a < 4.5, 4 for a >= 4.5; a day without entries is drawn at
\* level 0.  Ratings are in tenths of a star.
C18_RatingBuckets ==
  (output # <<>> /\ Arg.fn = "generateSvg" /\ Arg.options.mode = "rating") =>
     \A cell \in Result.cells :
        LET films == ListedOn(DateOfISO(cell.date))
            n     == Len(films)
            total == SumRatings(films)
        IN  /\ cell.count = n
            /\ n = 0 => cell.level = 0
            /\ n > 0 =>
                 /\ cell.level \in 1..4
                 /\ cell.level = 1 <=> total < 25 * n
                 /\ cell.level = 2 <=> (25 * n <= total /\ total < 35 * n)
                 /\ cell.level = 3 <=> (35 * n <= total /\ total < 45 * n)
                 /\ cell.level = 4 <=> 45 * n <= total

\* C18 witness: a day with a film of 2.5 and a film of 4.5 stars, average
\* exactly 3.5, is drawn at level 3
C18_Witness ==
  /\ output # <<>>
  /\ Arg.fn = "generateSvg"
  /\ Arg.options.mode = "rating"
  /\ \E cell \in Result.cells :
       /\ cell.count = 2
       /\ SumRatings(ListedOn(DateOfISO(cell.date))) = 70
       /\ cell.level = 3

\* the dates of the entries, and the runs of consecutive dates among them
\* that cannot be extended: <<first, last>>
DatesOf(entries) == { entries[i].date : i \in 1..Len(entries) }
RunsOf(dates) ==
  { run \in dates \X dates :
      /\ run[1] <= run[2]
      /\ \A d \in run[1]..run[2] : d \in dates
      /\ run[1] - 1 \notin dates
      /\ run[2] + 1 \notin dates }
RunLength(run) == run[2] - run[1] + 1

\* C16: for no entries calculateStreak returns length 0 and null dates;
\* otherwise it returns the length, the first and the last date of the
\* earliest among the longest runs of calendar-consecutive dates in the set
\* of the entries' dates.  Dates D, D+1, D+2 give 3 from D to D+2; dates
\* D, D+2 give length 1.
C16_LongestEarliestStreak ==
  (output # <<>> /\ Arg.fn = "calculateStreak") =>
     LET dates == DatesOf(Arg.entries)
         runs  == RunsOf(dates)
     IN  /\ dates = {} =>
              Result = [length |-> 0, startDate |-> NullDate, endDate |-> NullDate]
         /\ dates # {} =>
              \E best \in runs :
                 /\ \A run \in runs :
                      \/ RunLength(run) < RunLength(best)
                      \/ RunLength(run) = RunLength(best) /\ best[1] <= run[1]
                 /\ Result.length = RunLength(best)
                 /\ Result.startDate # NullDate /\ Result.endDate # NullDate
                 /\ DateOfISO(Result.startDate) = best[1]
                 /\ DateOfISO(Result.endDate) = best[2]
         /\ \A d \in dates :
              /\ dates = {d, d + 1, d + 2} =>
                   (Result.length = 3 /\ DateOfISO(Result.startDate) = d
                      /\ DateOfISO(Result.endDate) = d + 2)
              /\ dates = {d, d + 2} => Result.length = 1

\* C16 witness: of two runs of two days, December 30-31 and January 3-4, the
\* first is returned, from entries that start with the newest
C16_Witness ==
  /\ output # <<>>
  /\ Arg.fn = "calculateStreak"
  /\ DatesOf(Arg.entries) = { DateUTC(2023, 11, 30), DateUTC(2023, 11, 31),
                              DateUTC(2024, 0, 3), DateUTC(2024, 0, 4) }
  /\ Arg.entries[1].date = DateUTC(2024, 0, 4)
  /\ Result = [length |-> 2, startDate |-> <<2023, 12, 30>>,
               endDate |-> <<2023, 12, 31>>]

\* a row with a permalink of the shape .../for/YYYY/MM/DD, and the date the
\* permalink encodes
HasPermalink(row) == Len(row.dayUrl) = 7 /\ row.dayUrl[4] = "for"
PermalinkDate(row) ==
  DateUTC(parseInt(row.dayUrl[5]), parseInt(row.dayUrl[6]) - 1, parseInt(row.dayUrl[7]))

\* the month and year carried over to row i: those printed by the nearest
\* row up to i that prints them, <<>> if there is none
Carried(rows, i) ==
  IF \E j \in 1..i : rows[j].calendar # <<>>
  THEN rows[CHOOSE j \in 1..i :
              rows[j].calendar # <<>> /\ \A k \in (j + 1)..i : rows[k].calendar = <<>>].calendar
  ELSE <<>>

\* the rows of the page with a permalink (of the year asked for, and with a
\* title), the rows without one, and the entries that bear their titles
PermalinkRows ==
  SelectSeq(Arg.html.rows, LAMBDA row :
     HasPermalink(row) /\ row.title # "" /\ parseInt(row.dayUrl[5]) = Arg.year)
EntriesTitled(titles) == SelectSeq(Result.entries, LAMBDA e : e.title \in titles)
TitlesWithPermalink ==
  { Arg.html.rows[i].title : i \in { j \in 1..Len(Arg.html.rows) : Arg.html.rows[j].dayUrl # <<>> } }
TitlesWithoutPermalink ==
  { Arg.html.rows[i].title : i \in { j \in 1..Len(Arg.html.rows) : Arg.html.rows[j].dayUrl = <<>> } }

\* C19: the entries of the rows that have a permalink are, row by row, dated
\* as the permalink says, whatever month and year the rows before them
\* printed.
C19_PermalinkDatesTheEntry ==
  (output # <<>> /\ Arg.fn = "parseDiaryEntries") =>
     LET entries == EntriesTitled(TitlesWithPermalink)
     IN  /\ Len(entries) = Len(PermalinkRows)
         /\ \A k \in 1..Len(entries) :
              /\ entries[k].title = PermalinkRows[k].title
              /\ entries[k].date = PermalinkDate(PermalinkRows[k])

\* C19 witness: the row with permalink 2024-03-05 follows the row that
\* printed Feb 2024 and is dated March 5
C19_Witness ==
  /\ output # <<>>
  /\ Arg.fn = "parseDiaryEntries"
  /\ Len(Arg.html.rows) = 2
  /\ Carried(Arg.html.rows, 2) = <<"Feb", "2024">>
  /\ Arg.html.rows[2].calendar = <<>>
  /\ Len(Result.entries) = 2
  /\ Result.entries[2] = [date |-> DateUTC(2024, 2, 5), title |-> "Alien", rating |-> <<40>>]

\* the rows without a permalink to which a month and year of the year asked
\* for are carried over
CarriedRows ==
  LET rows == Arg.html.rows
      idx  == { i \in 1..Len(rows) :
                  /\ rows[i].dayUrl = <<>>
                  /\ Carried(rows, i) # <<>>
                  /\ parseInt(Carried(rows, i)[2]) = Arg.year }
  IN  Cardinality(idx)

Encoded(row) ==
  << parseInt(row.dayUrl[5]), parseInt(row.dayUrl[6]), parseInt(row.dayUrl[7]) >>
IsCalendarDay(ymd) ==
  /\ ymd[1] # NaN /\ ymd[2] # NaN /\ ymd[3] # NaN
  /\ civil(DateUTC(ymd[1], ymd[2] - 1, ymd[3])) = ymd

\* the rows that are not to be skipped for year y: a title, a well-formed
\* permalink, and a day of year y
RowsOfYear(rows, y) ==
  SelectSeq(rows, LAMBDA row :
     /\ row.title # ""
     /\ HasPermalink(row)
     /\ IsCalendarDay(Encoded(row))
     /\ Encoded(row)[1] = y)

\* C21 as claimed: the entries are, in order, those of the rows with a
\* title and a well-formed permalink of the year asked for; each is dated
\* with a valid calendar date of that year, the one its row encodes.
C21_EntriesAreValidDatesOfTheYear ==
  (output # <<>> /\ Arg.fn = "parseDiaryEntries") =>
     LET kept == RowsOfYear(Arg.html.rows, Arg.year)
     IN  /\ Len(Result.entries) = Len(kept)
         /\ \A k \in 1..Len(Result.entries) :
              LET e == Result.entries[k]
              IN  /\ e.date # NaN
                  /\ civil(e.date)[1] = Arg.year
                  /\ k <= Len(kept) =>
                       /\ e.title = kept[k].title
                       /\ civil(e.date) = Encoded(kept[k])

\* C22: every rating emitted is absent or a multiple of half a star from 0
\* to 5, twice the rating being the marker of the row; a row without a
\* marker gives an absent rating, which is not the rating 0.  (Ratings are
\* held in tenths of a star.)
C22_RatingIsHalfTheMarker ==
  (output # <<>> /\ Arg.fn = "parseDiaryEntries") =>
     /\ Len(Result.entries) = Len(PermalinkRows)
     /\ \A k \in 1..Len(Result.entries) :
          LET rating == Result.entries[k].rating
              rated  == PermalinkRows[k].rated
          IN  /\ rating = <<>> \/ (rating[1] % 5 = 0 /\ rating[1] >= 0 /\ rating[1] <= 50)
              /\ rated = <<>> => rating = <<>>
              /\ rated # <<>> => (rating # <<>> /\ rating[1] * 2 = rated[1] * 10)

\* C22 witness: a row marked rated-0 and a row without a marker give the
\* rating 0 and no rating
C22_Witness ==
  /\ output # <<>>
  /\ Arg.fn = "parseDiaryEntries"
  /\ Len(Arg.html.rows) = 2
  /\ Arg.html.rows[1].rated = <<0>>
  /\ Arg.html.rows[2].rated = <<>>
  /\ Len(Result.entries) = 2
  /\ Result.entries[1].rating = <<0>>
  /\ Result.entries[2].rating = <<>>

\* the days of year y, and the week-start day on or before January 1 from
\* which the columns are counted
DaysOfYear(y) == DateUTC(y, 0, 1)..DateUTC(y, 11, 31)
AlignedStart(y) ==
  CHOOSE d \in (DateUTC(y, 0, 1) - 6)..DateUTC(y, 0, 1) : getUTCDay(d) = WeekStartDay

\* C23: the cells drawn are one for each day of the requested year, 365 or
\* 366 of them, and none for a padding day; the cell of a day lies in the
\* column of its week and the row of its weekday counted from the aligned
\* start, padding days included in the count, 17 units apart.
C23_OneCellPerDayOfTheYear ==
  (output # <<>> /\ Arg.fn = "generateSvg") =>
     LET y == Arg.options.year
     IN  /\ { DateOfISO(cell.date) : cell \in Result.cells } = DaysOfYear(y)
         /\ Cardinality(Result.cells) = Cardinality(DaysOfYear(y))
         /\ Cardinality(Result.cells) \in {365, 366}
         /\ \A cell \in Result.cells :
              LET slot == DateOfISO(cell.date) - AlignedStart(y)
              IN  /\ cell.date[1] = y
                  /\ cell.x = (slot \div 7) * 17
                  /\ cell.y = (slot % 7) * 17

\* C23 witness: the leap year 2024 with Sunday start has one padding day
\* before January 1, a Monday, whose cell is the second of the first column,
\* and 366 cells
C23_Witness ==
  /\ output # <<>>
  /\ Arg.fn = "generateSvg"
  /\ Arg.options.year = 2024
  /\ Arg.options.weekStart = "sunday"
  /\ Result.startDate = DateUTC(2024, 0, 1) - 1
  /\ Cardinality(Result.cells) = 366
  /\ \E cell \in Result.cells : cell.date = <<2024, 1, 1>> /\ cell.x = 0 /\ cell.y = 17
  /\ \E cell \in Result.cells : cell.date = <<2024, 12, 31>> /\ cell.x = 52 * 17 /\ cell.y = 2 * 17

\* C24 as claimed: two calls of a generator with the same entries and the
\* same options return the same text.
C24_SameInputsSameText ==
  (Len(output) = 2 /\ Arg.fn \in {"generateSvg", "generateMultiYearSvg"}) =>
     output[1].text = output[2].text

\* a page with at least one diary row and an enabled "next" control, and the
\* rows of a page from which an entry of year y is extracted
HasRowsAndNext(doc) == doc.table /\ doc.rows # <<>> /\ doc.next = "enabled"
ExtractedRows(doc, y) ==
  SelectSeq(doc.rows, LAMBDA row :
     row.title # "" /\ HasPermalink(row) /\ Encoded(row)[1] = y)

\* page i + 1 has been requested, or is the page the loop is about to request
NextPageFollows(i) == pageRequests > i \/ (hasMorePages /\ page = i + 1)

\* C25 as claimed: after a page with at least one row and an enabled "next"
\* control the following page is requested, however many entries the page
\* gave.
C25_NextControlAloneContinues ==
  fdPc \in {"loop", "await", "returned"} =>
     \A i \in 1..Len(served) : HasRowsAndNext(served[i]) => NextPageFollows(i)

\* C25, amended: after a page with rows and an enabled "next" control the
\* following page is requested when at least one entry was extracted from
\* the page; when all its rows were skipped the page is the last one
\* requested.
C25_NextControlContinuesAfterEntries ==
  fdPc \in {"loop", "await", "returned"} =>
     \A i \in 1..Len(served) :
        HasRowsAndNext(served[i]) =>
           IF ExtractedRows(served[i], year) # <<>>
           THEN NextPageFollows(i)
           ELSE i = Len(served) /\ pageRequests = i /\ ~hasMorePages

\* C25 witness: the function returned after one page whose only row is of
\* another year, although the page has an enabled "next" control
C25_Witness ==
  /\ fdPc = "returned"
  /\ Len(served) = 1
  /\ HasRowsAndNext(served[1])
  /\ ExtractedRows(served[1], year) = <<>>
  /\ pageRequests = 1
  /\ allEntries = <<>>

\* the first letters of Sunday .. Saturday, by getUTCDay
Initial == [d \in 0..6 |-> <<"S", "M", "T", "W", "T", "F", "S">>[d + 1]]

\* the entries of the filtered year that fall on weekday d
OnWeekday(d) == { i \in 1..Len(Listed) : getUTCDay(Listed[i].date) = d }

\* C26: every entry of the filtered year is counted once, under its UTC
\* weekday, so the seven buckets sum to the film count shown; the bar at
\* position i carries the letter and the count of one and the same weekday,
\* which is weekday i with Sunday start and weekday (i + 1) mod 7 with
\* Monday start.
C26_WeekdayDistribution ==
  (output # <<>> /\ Arg.fn = "generateSvg") =>
     /\ \A d \in 0..6 : Result.weeklyDistribution[d] = Cardinality(OnWeekday(d))
     /\ SumOver(Result.weeklyDistribution, 0..6) = Result.stats.totalFilms
     /\ \A i \in 0..6 :
          LET d == (i + WeekStartDay) % 7
          IN  /\ Result.bars[i].label = Initial[d]
              /\ Result.bars[i].count = Cardinality(OnWeekday(d))

\* C26 witness: with Monday start and films on Sundays only the last bar is
\* the one that is filled
C26_Witness ==
  /\ output # <<>>
  /\ Arg.fn = "generateSvg"
  /\ Arg.options.weekStart = "monday"
  /\ Result.stats.totalFilms = 2
  /\ Result.weeklyDistribution[0] = 2
  /\ Result.bars[6] = [label |-> "S", count |-> 2]
  /\ Result.bars[0] = [label |-> "M", count |-> 0]

\* C27: over all the calls of a run one browser is launched at most and one
\* page is open at most; a page is open exactly from browser.newPage() of an
\* attempt to the finally block of that attempt, so none is open when the
\* next attempt opens its page, when the call has returned or thrown, or
\* between calls; and a page is only open in a launched browser.
C27_OneBrowserOnePage ==
  /\ launches <= 1
  /\ openPages \in {0, 1}
  /\ fpPc \in {"idle", "getBrowser", "newPage", "returned", "thrown"} => openPages = 0
  /\ fpPc \in {"goto", "sleep", "finally"} => openPages = 1
  /\ openPages = 1 => browserInstance # 0

\* C27 witness: the second call of a diary fetch has thrown after five
\* failed attempts in the one browser, and no page is open
C27_Witness ==
  /\ fpPc = "thrown"
  /\ pageRequests = 2
  /\ error.attempt = retries
  /\ launches = 1
  /\ browserInstance # 0
  /\ openPages = 0

\* C28: content is returned only by an attempt whose response had a status
\* below 400 and whose last reading is not classified as a challenge page;
\* an attempt whose last reading is classified ends with a challenge error,
\* is retried or rethrown and returns nothing; so no page the parser was
\* given is classified as a challenge page.
C28_NoChallengePageReturned ==
  /\ (fpPc = "finally" /\ fpExit = "return") =>
        /\ responseStatus \in 1..399
        /\ ~isCloudflareChallengePage(content.text)
  /\ fpPc = "returned" =>
        /\ fpExit = "return"
        /\ ~isCloudflareChallengePage(content.text)
  /\ responseStatus >= 400 => (fpExit \in {"retry", "throw"} /\ content = NoDoc)
  /\ (fpPc \in {"sleep", "finally"} /\ isCloudflareChallengePage(content.text)) =>
        /\ error = [kind |-> "challenge", attempt |-> attempt]
        /\ fpExit \in {"retry", "throw"}
  /\ \A i \in 1..Len(served) : ~isCloudflareChallengePage(served[i].text)

\* C28 witness: the last attempt for page 2 of a diary read a page that is
\* classified as a challenge and is on its way out with the challenge error
C28_Witness ==
  /\ fpPc = "finally"
  /\ url.route = "diary"
  /\ url.page = 2
  /\ attempt = retries
  /\ responseStatus = 200
  /\ isCloudflareChallengePage(content.text)
  /\ content.table
  /\ fpExit = "throw"
  /\ error.kind = "challenge"

\* the day of the export's calendar that a cell of the graph stands for
CalendarDay(cell) == Result.json.calendar[cell.week * 7 + cell.day]

\* C29 as claimed: every day of the year has, in the export, the level at
\* which the count-mode graph of the same entries, year and weekStart draws
\* its cell.
C29_ExportLevelIsGraphLevel ==
  (output # <<>> /\ Arg.fn = "export" /\ Arg.options.mode = "count") =>
     \A cell \in Result.svg.cells :
        /\ CalendarDay(cell).date = cell.date
        /\ CalendarDay(cell).inRange
        /\ CalendarDay(cell).level = cell.level

\* the rated films among the entries of a date, and the level of their
\* average rating
RatedOn(date) == SelectSeq(ListedOn(date), LAMBDA e : e.rating # <<>>)
LevelOfAverage(total, n) ==
  IF total < 25 * n THEN 1 ELSE IF total < 35 * n THEN 2 ELSE IF total < 45 * n THEN 3 ELSE 4

\* C30 as claimed: in rating mode a day with rated films is drawn at the
\* level of the average over its rated films, the films over which the
\* export computes the day's ratingAvg (rounded to a tenth); unrated films
\* of the day do not enter.
C30_RatingLevelOverRatedFilms ==
  (output # <<>> /\ Arg.fn = "export" /\ Arg.options.mode = "rating") =>
     \A cell \in Result.svg.cells :
        LET rated == RatedOn(DateOfISO(cell.date))
            n     == Len(rated)
            total == SumRatings(rated)
        IN  n > 0 =>
              /\ CalendarDay(cell).ratingAvg = << (2 * total + n) \div (2 * n) >>
              /\ cell.level = LevelOfAverage(total, n)

====
